---- MODULE Spec2Model ----
(***************************************************************************)
(* aqimon: the sensor-to-alert pipeline.                                   *)
(*                                                                         *)
(* Three deployments of the same pipeline live in the repository:          *)
(*   "go"  the Go daemon, baseline kept in the in-memory state struct      *)
(*   "kv"  the worker that keeps the baseline as JSON under the key        *)
(*          last_readings of the key-value namespace STATE                 *)
(*   "d1"  the worker that keeps readings as rows of the table reading,    *)
(*          tagged with a kind                                             *)
(*                                                                         *)
(* Numbers: PM2.5 concentrations and AQI values are fixed-point integers   *)
(* in tenths (12.1 is 121, AQI 65 is 650). NaN and JSON/SQL null are two   *)
(* reserved integers outside the range of every real value. Time is in     *)
(* seconds since the epoch.                                                *)
(***************************************************************************)
EXTENDS Integers, Sequences, FiniteSets, TLC

VARIABLES
    variant,            \* which deployment runs
    now,                \* wall clock, unix seconds
    justStarted,        \* go: state.justStarted
    last10mReading,     \* go: state.last10mReading
    kvLastReadings,     \* kv: STATE["last_readings"], <<>> when absent
    kvLastAdhocRefresh, \* kv: STATE["last_adhoc_report_refresh"], 0 when absent
    kvLastDailyReport,  \* kv: STATE["last_successful_daily_report"], 0 when absent
    db,                 \* d1: rows of table reading, in id order
    sensorTs,           \* environment: time_stamp of the sensor's latest data
    poll,               \* observation: what the last checkAirQuality did
    prevPoll,           \* observation: what the checkAirQuality before it did
    lastOp,             \* observation: the operation that produced this state
    report,             \* observation: how it ended, if it was sendDailyReport
    nOps,               \* number of handler invocations so far
    nAdv,               \* number of clock advances so far
    rdImpl,             \* reader: "go" getPurpleAirSensorData, "ts" getSensorData,
                        \* "legacy" the getSensorData that preceded it
    rdCfg,              \* reader: cfg.purpleAirSensorID, cfg.backupSensorID
    rdApi,              \* reader: what the sensor API answers for each sensor ID
    rdCur,              \* reader: sensorID of the pending call, "" when none
    rdFetched,          \* reader: the sensor IDs requested so far, in order
    rdResult,           \* reader: what the read returned
    ntChannel,          \* notifier: which notify runs
    ntEvent,            \* notifier: the event it was called with
    ntApi,              \* notifier: the service's answer to each send, in order
    ntSent,             \* notifier: sends made so far
    ntResult,           \* notifier: "pending", "ok" or "error"
    stCfg,              \* start: which fields of config are non-empty
    stPc,               \* start: where _main is
    stNotifier,         \* start: the notifier initNotifier built
    stErr,              \* start: the error _main returned, "" when none
    stPolls,            \* start: calls of checkAirQuality made
    stNetCalls,         \* start: network requests made
    aqIn,               \* converter: the concentrations handed to aqiFromPM
    aqOut,              \* converter: what it returned for them, <<>> before
    tbl,                \* store: every row of table reading, in id order
    qAsked,             \* store: kind and maxAge of the previousReadings that
                        \* has just run, <<>> when none has
    qAnswer,            \* store: what it returned
    expired,            \* store: the rows the removeOldReadings that has just
                        \* run deleted, <<>> when none has
    crClock,            \* cron: seconds since c.Start()
    crFires,            \* cron: times the schedule has fired
    crInFlight,         \* cron: the calls of checkAirQuality under way
    crNotified,         \* cron: calls of notify that have returned
    tick,               \* scheduler: the scheduled invocation and its tasks
    opFetched,          \* scheduler: the operation just run read the sensor
    lastSentAt,         \* scheduler: when the last daily report went out
    lastFetchAt,        \* scheduler: when the last on-demand report read
                        \* the sensor
    served,             \* scheduler: what the report request just served got
    dmSnitch,           \* daemon: DEADMAN_SNITCH is set
    dmPolls,            \* daemon: calls of checkAirQuality made in this run
    dmDispatched,       \* daemon: the event notify was last called with
    dmNaNSince,         \* daemon: a poll since that call read NaN
    dmPinged,           \* daemon: the poll just made was followed by a ping
    whReq,              \* webhook: the psk, From and Body of the request
    whRead,             \* webhook: the sensor was read for it
    whResponse          \* webhook: the answer, "none" before

\* the sensor-to-alert pipeline
pipelineVars ==
    <<variant, now, justStarted, last10mReading, kvLastReadings,
      kvLastAdhocRefresh, kvLastDailyReport, db, sensorTs, poll, prevPoll,
      lastOp, report, nOps, nAdv>>

\* the sensor reader taken on its own
readerVars == <<rdImpl, rdCfg, rdApi, rdCur, rdFetched, rdResult>>

\* the notifier taken on its own
notifierVars == <<ntChannel, ntEvent, ntApi, ntSent, ntResult>>

\* the start of the daemon taken on its own
startVars == <<stCfg, stPc, stNotifier, stErr, stPolls, stNetCalls>>

\* the AQI converter taken on its own
aqiVars == <<aqIn, aqOut>>

\* the reading store taken on its own
storeVars == <<tbl, qAsked, qAnswer, expired>>

\* the daemon's cron taken on its own
cronVars == <<crClock, crFires, crInFlight, crNotified>>

\* the workers' scheduled handler and report requests, which work on the
\* pipeline's variables and are observed through these
schedVars == <<tick, opFetched, lastSentAt, lastFetchAt, served>>

\* a run of the daemon, poll after poll, which works on the pipeline's
\* variables and is observed through these
daemonVars == <<dmSnitch, dmPolls, dmDispatched, dmNaNSince, dmPinged>>

\* the incoming-message webhook taken on its own
webhookVars == <<whReq, whRead, whResponse>>

\* the components taken on their own, which the pipeline's handlers leave
\* alone
auxVars ==
    <<readerVars, notifierVars, startVars, aqiVars, storeVars, cronVars,
      schedVars, daemonVars, webhookVars>>

\* what a component taken on its own leaves alone
readerOthers ==
    <<pipelineVars, notifierVars, startVars, aqiVars, storeVars, cronVars,
      schedVars, daemonVars, webhookVars>>
notifierOthers ==
    <<pipelineVars, readerVars, startVars, aqiVars, storeVars, cronVars,
      schedVars, daemonVars, webhookVars>>
startOthers ==
    <<pipelineVars, readerVars, notifierVars, aqiVars, storeVars, cronVars,
      schedVars, daemonVars, webhookVars>>
aqiOthers ==
    <<pipelineVars, readerVars, notifierVars, startVars, storeVars, cronVars,
      schedVars, daemonVars, webhookVars>>
storeOthers ==
    <<pipelineVars, readerVars, notifierVars, startVars, aqiVars, cronVars,
      schedVars, daemonVars, webhookVars>>
cronOthers ==
    <<pipelineVars, readerVars, notifierVars, startVars, aqiVars, storeVars,
      schedVars, daemonVars, webhookVars>>
schedOthers ==
    <<readerVars, notifierVars, startVars, aqiVars, storeVars, cronVars,
      daemonVars, webhookVars>>
daemonOthers ==
    <<readerVars, notifierVars, startVars, aqiVars, storeVars, cronVars,
      schedVars, webhookVars>>
webhookOthers ==
    <<pipelineVars, readerVars, notifierVars, startVars, aqiVars, storeVars,
      cronVars, schedVars, daemonVars>>

vars == <<pipelineVars, auxVars>>

----------------------------------------------------------------------------
(* Bounds of the exploration *)

MaxOps == 3          \* handler invocations per behaviour
MaxAdvance == 1      \* clock advances per behaviour

----------------------------------------------------------------------------
(* Numbers *)

NaN == 0 - 9999999
JNull == 0 - 9999998

Tenths(x) == 10 * x

\* JS ToNumber on the operands of a relational operator: null becomes 0
ToNumber(x) == IF x = JNull THEN 0 ELSE x

\* a > b and a <= b as IEEE-754 / JS evaluate them: false when either is NaN
Gt(a, b) == ToNumber(a) # NaN /\ ToNumber(b) # NaN /\ ToNumber(a) > ToNumber(b)
Le(a, b) == ToNumber(a) # NaN /\ ToNumber(b) # NaN /\ ToNumber(a) <= ToNumber(b)

\* Math.round / math.Round of the non-negative rational num/den
Round(num, den) == (2 * num + den) \div (2 * den)

calcAQI(Cp, Ih, Il, BPh, BPl) ==
    LET a == Ih - Il
        b == BPh - BPl
        c == Cp - BPl
    IN  Tenths(Round(a * c + Il * b, 10 * b))

\* aqiFromPM with the index of the lowest band running up to 55
aqiFromPM_wideFirstBand(pm) ==
    IF pm = NaN THEN NaN
    ELSE IF pm < 0 THEN pm
    ELSE IF pm > 10000 THEN NaN
    ELSE IF pm > 3505 THEN calcAQI(pm, 5000, 4010, 5000, 3505)
    ELSE IF pm > 2505 THEN calcAQI(pm, 4000, 3010, 3504, 2505)
    ELSE IF pm > 1505 THEN calcAQI(pm, 3000, 2010, 2504, 1505)
    ELSE IF pm > 555 THEN calcAQI(pm, 2000, 1510, 1504, 555)
    ELSE IF pm > 355 THEN calcAQI(pm, 1500, 1010, 554, 355)
    ELSE IF pm > 121 THEN calcAQI(pm, 1000, 510, 354, 121)
    ELSE IF pm >= 0 THEN calcAQI(pm, 550, 0, 120, 0)
    ELSE NaN

\* aqiFromPM without the test pm > 1000: a concentration above 1000 is
\* converted along the line of the highest band
aqiFromPM_noUpperLimit(pm) ==
    IF pm = NaN THEN NaN
    ELSE IF pm < 0 THEN pm
    ELSE IF pm > 3505 THEN calcAQI(pm, 5000, 4010, 5000, 3505)
    ELSE IF pm > 2505 THEN calcAQI(pm, 4000, 3010, 3504, 2505)
    ELSE IF pm > 1505 THEN calcAQI(pm, 3000, 2010, 2504, 1505)
    ELSE IF pm > 555 THEN calcAQI(pm, 2000, 1510, 1504, 555)
    ELSE IF pm > 355 THEN calcAQI(pm, 1500, 1010, 554, 355)
    ELSE IF pm > 121 THEN calcAQI(pm, 1000, 510, 354, 121)
    ELSE IF pm >= 0 THEN calcAQI(pm, 500, 0, 120, 0)
    ELSE NaN

aqiFromPM(pm) ==
    IF pm = NaN THEN NaN
    ELSE IF pm < 0 THEN pm
    ELSE IF pm > 10000 THEN NaN
    ELSE IF pm > 3505 THEN calcAQI(pm, 5000, 4010, 5000, 3505)
    ELSE IF pm > 2505 THEN calcAQI(pm, 4000, 3010, 3504, 2505)
    ELSE IF pm > 1505 THEN calcAQI(pm, 3000, 2010, 2504, 1505)
    ELSE IF pm > 555 THEN calcAQI(pm, 2000, 1510, 1504, 555)
    ELSE IF pm > 355 THEN calcAQI(pm, 1500, 1010, 554, 355)
    ELSE IF pm > 121 THEN calcAQI(pm, 1000, 510, 354, 121)
    ELSE IF pm >= 0 THEN calcAQI(pm, 500, 0, 120, 0)
    ELSE NaN

----------------------------------------------------------------------------
(* Threshold-crossing detector *)

AQ_THRESHOLD == 65

\* the if / else-if chain on the previous and the current 10-minute
\* average, with >= in place of > in the first test
Detect_ge(p, c) ==
    IF p # NaN /\ c # NaN /\ ToNumber(p) >= Tenths(AQ_THRESHOLD)
            /\ Le(c, Tenths(AQ_THRESHOLD))
        THEN "air_quality_good"
    ELSE IF Le(p, Tenths(AQ_THRESHOLD)) /\ Gt(c, Tenths(AQ_THRESHOLD))
        THEN "air_quality_bad"
    ELSE "none"

\* the if / else-if chain on the previous and the current 10-minute
\* average, with < in place of <= in the second test
Detect_lt(p, c) ==
    IF Gt(p, Tenths(AQ_THRESHOLD)) /\ Le(c, Tenths(AQ_THRESHOLD))
        THEN "air_quality_good"
    ELSE IF p # NaN /\ c # NaN /\ ToNumber(p) < Tenths(AQ_THRESHOLD)
            /\ Gt(c, Tenths(AQ_THRESHOLD))
        THEN "air_quality_bad"
    ELSE "none"

\* the if / else-if chain on the previous and the current 10-minute average
Detect(p, c) ==
    IF Gt(p, Tenths(AQ_THRESHOLD)) /\ Le(c, Tenths(AQ_THRESHOLD))
        THEN "air_quality_good"
    ELSE IF Le(p, Tenths(AQ_THRESHOLD)) /\ Gt(c, Tenths(AQ_THRESHOLD))
        THEN "air_quality_bad"
    ELSE "none"

\* What one invocation of checkAirQuality did (observation record).
\*   sensorOk  the sensor read returned a reading
\*   cur       the current 10-minute-average AQI (0 when the read failed)
\*   at        when the reading was taken (0 when the read failed)
\*   readErr   the lookup of the previous reading rejected
\*   hadPrev   a previous reading was found
\*   prev      its 10-minute average as the comparison reads it
\*   prevOrig  the 10-minute average that had been handed to the store
\*   prevKind  the path that wrote it
\*   writeErr  the write of the current reading rejected
\*   stored    the current reading was written as the baseline
\*   compared  the threshold comparison was evaluated
\*   event     the detector's event
\*   notified  notify was called
\*   notifyOk  notify returned without error
\*   err       checkAirQuality returned an error / rejected
NoPoll ==
    [sensorOk |-> FALSE, cur |-> 0, at |-> 0, readErr |-> FALSE,
     hadPrev |-> FALSE, prev |-> 0, prevOrig |-> 0, prevKind |-> "none",
     writeErr |-> FALSE, stored |-> FALSE, compared |-> FALSE,
     event |-> "none", notified |-> FALSE, notifyOk |-> FALSE,
     err |-> FALSE]

\* what is remembered of the poll before the last one: the event whose
\* notification dispatch failed in it, "none" when none failed
Summary(p) ==
    [failedEvent |-> IF p.notified /\ ~p.notifyOk THEN p.event ELSE "none"]

\* the record of a poll that compared p with c and got event
Compared(base, event, notifyOk) ==
    [base EXCEPT !.stored = TRUE, !.compared = TRUE, !.event = event,
                 !.notified = event # "none",
                 !.notifyOk = event # "none" /\ notifyOk,
                 !.err = event # "none" /\ ~notifyOk]

----------------------------------------------------------------------------
(* Inputs *)

\* whether a call resolves is drawn only for a call that is reached
Outcomes(reached) == IF reached THEN BOOLEAN ELSE {TRUE}

\* PM2.5 concentrations the sensor may report to the daemon, in tenths of a
\* microgram: AQI 60, 64, 65, 66, 70 and NaN
PMs == {164, 183, 188, 192, 211, 10005}

\* ... to the workers' interval poll: AQI 64, 66 and NaN (the comparison at
\* the threshold itself is the same code and is exercised by the daemon)
WorkerPMs == {183, 192, 10005}

\* ... to the workers' report paths: AQI 64 and 66
ReportPMs == {183, 192}

\* how long before now the sensor-reported timestamp may lie
SensorAges == {0, 7200}

\* seconds the clock may advance by between operations
Steps == {60, 3600}

Day0 == 19676 * 86400
StartOfRun == Day0 + 9 * 3600

----------------------------------------------------------------------------
(* Go daemon *)

\* results of getPurpleAirSensorData as checkAirQuality sees them
GoSensorResults ==
    {[ok |-> FALSE, tenmavg |-> 0]}
        \cup {[ok |-> TRUE, tenmavg |-> aqiFromPM(pm)] : pm \in PMs}

\* checkAirQuality with the justStarted test left out: the first poll
\* compares against the zero value of last10mReading
goCheckAirQuality_noJustStarted(s, r, notifyOk) ==
    IF ~r.ok THEN [s |-> s, out |-> [NoPoll EXCEPT !.err = TRUE]]
    ELSE
        LET deferred == [justStarted |-> FALSE, last10mReading |-> r.tenmavg]
            seen == [NoPoll EXCEPT !.sensorOk = TRUE, !.cur = r.tenmavg,
                                   !.at = now, !.hadPrev = ~s.justStarted]
        IN  [s |-> deferred,
             out |-> Compared(seen, Detect(s.last10mReading, r.tenmavg),
                              notifyOk)]

\* checkAirQuality with the state assigned after notify returned nil
\* instead of in the deferred function
goCheckAirQuality_updateOnSuccess(s, r, notifyOk) ==
    IF ~r.ok THEN [s |-> s, out |-> [NoPoll EXCEPT !.err = TRUE]]
    ELSE
        LET deferred == [justStarted |-> FALSE, last10mReading |-> r.tenmavg]
            seen == [NoPoll EXCEPT !.sensorOk = TRUE, !.cur = r.tenmavg,
                                   !.at = now]
        IN  IF s.justStarted
                THEN [s |-> deferred, out |-> [seen EXCEPT !.stored = TRUE]]
            ELSE
                LET out == Compared(
                               [seen EXCEPT !.hadPrev = TRUE,
                                            !.prev = s.last10mReading,
                                            !.prevOrig = s.last10mReading,
                                            !.prevKind = "interval"],
                               Detect(s.last10mReading, r.tenmavg), notifyOk)
                IN  IF out.err
                        THEN [s |-> s, out |-> [out EXCEPT !.stored = FALSE]]
                    ELSE [s |-> deferred, out |-> out]

\* checkAirQuality with the deferred function registered before the error
\* test: a failed read overwrites the state with the zero readings
goCheckAirQuality_deferFirst(s, r, notifyOk) ==
    LET deferred == [justStarted |-> FALSE, last10mReading |-> r.tenmavg]
        seen == [NoPoll EXCEPT !.sensorOk = TRUE, !.cur = r.tenmavg,
                               !.at = now]
    IN  IF ~r.ok THEN [s |-> deferred, out |-> [NoPoll EXCEPT !.err = TRUE]]
        ELSE IF s.justStarted
            THEN [s |-> deferred, out |-> [seen EXCEPT !.stored = TRUE]]
        ELSE [s |-> deferred,
              out |-> Compared(
                          [seen EXCEPT !.hadPrev = TRUE,
                                       !.prev = s.last10mReading,
                                       !.prevOrig = s.last10mReading,
                                       !.prevKind = "interval"],
                          Detect(s.last10mReading, r.tenmavg), notifyOk)]

\* checkAirQuality with the deferred function assigning last10mReading
\* in the first poll only
goCheckAirQuality_baselineOnce(s, r, notifyOk) ==
    IF ~r.ok THEN [s |-> s, out |-> [NoPoll EXCEPT !.err = TRUE]]
    ELSE
        LET deferred == [justStarted |-> FALSE,
                         last10mReading |-> IF s.justStarted THEN r.tenmavg
                                            ELSE s.last10mReading]
            seen == [NoPoll EXCEPT !.sensorOk = TRUE, !.cur = r.tenmavg,
                                   !.at = now]
        IN  IF s.justStarted
                THEN [s |-> deferred, out |-> [seen EXCEPT !.stored = TRUE]]
            ELSE [s |-> deferred,
                  out |-> Compared(
                              [seen EXCEPT !.hadPrev = TRUE,
                                           !.prev = s.last10mReading,
                                           !.prevOrig = s.last10mReading,
                                           !.prevKind = "interval"],
                              Detect(s.last10mReading, r.tenmavg), notifyOk)]

\* checkAirQuality of the daemon on state s = [justStarted, last10mReading]:
\* the state it leaves (s) and what it did (out). The deferred function
\* runs on every return after the sensor read succeeded.
goCheckAirQuality(s, r, notifyOk) ==
    IF ~r.ok THEN [s |-> s, out |-> [NoPoll EXCEPT !.err = TRUE]]
    ELSE
        LET deferred == [justStarted |-> FALSE, last10mReading |-> r.tenmavg]
            seen == [NoPoll EXCEPT !.sensorOk = TRUE, !.cur = r.tenmavg,
                                   !.at = now]
        IN  IF s.justStarted
                THEN [s |-> deferred, out |-> [seen EXCEPT !.stored = TRUE]]
            ELSE [s |-> deferred,
                  out |-> Compared(
                              [seen EXCEPT !.hadPrev = TRUE,
                                           !.prev = s.last10mReading,
                                           !.prevOrig = s.last10mReading,
                                           !.prevKind = "interval"],
                              Detect(s.last10mReading, r.tenmavg), notifyOk)]

GoCheckAirQuality ==
    /\ variant = "go"
    /\ nOps < MaxOps
    /\ \E r \in GoSensorResults : \E notifyOk \in Outcomes(r.ok) :
        LET res == goCheckAirQuality(
                       [justStarted |-> justStarted,
                        last10mReading |-> last10mReading], r, notifyOk)
        IN  /\ justStarted' = res.s.justStarted
            /\ last10mReading' = res.s.last10mReading
            /\ poll' = res.out
    /\ prevPoll' = Summary(poll)
    /\ lastOp' = "checkAirQuality"
    /\ nOps' = nOps + 1
    /\ UNCHANGED <<variant, now, kvLastReadings, kvLastAdhocRefresh,
                   kvLastDailyReport, db, sensorTs, nAdv>>
    /\ report' = "none"
    /\ UNCHANGED auxVars

----------------------------------------------------------------------------
(* Workers: checkAirQuality, shared by the kv and the d1 deployment *)

\* results of getSensorData: a rejected fetch, or a reading of one of the
\* concentrations pms with a sensor-reported timestamp ts that lies one of
\* ages before now and not before the sensor's previous data
SensorResults(pms, ages) ==
    {[ok |-> FALSE, tenMinuteAvg |-> 0, ts |-> 0]}
        \cup {[ok |-> TRUE, tenMinuteAvg |-> aqiFromPM(pm), ts |-> now - a] :
                pm \in pms, a \in {x \in ages : now - x >= sensorTs}}

\* A previous reading as previousReadings hands it to its caller:
\*   st = "null"   no reading qualifies
\*   st = "error"  the lookup rejected
\*   st = "row"    a reading; tenMinuteAvg is the value read back, orig the
\*                 value that was handed to the store, kind the writer
NoReading(st) ==
    [st |-> st, tenMinuteAvg |-> 0, orig |-> 0, kind |-> "none", ts |-> 0]

\* the record of a poll whose sensor read succeeded and whose lookup of
\* the previous reading resolved
Looked(results, lastReadings) ==
    [NoPoll EXCEPT !.sensorOk = TRUE, !.cur = results.tenMinuteAvg,
                   !.at = now, !.hadPrev = lastReadings.st = "row",
                   !.prev = lastReadings.tenMinuteAvg,
                   !.prevOrig = lastReadings.orig,
                   !.prevKind = lastReadings.kind]

\* checkAirQuality with storeReadings moved behind notify
checkAirQuality_storeAfterNotify(results, lastReadings, storeOk, notifyOk) ==
    IF ~results.ok THEN [NoPoll EXCEPT !.err = TRUE]
    ELSE IF lastReadings.st = "error"
        THEN [NoPoll EXCEPT !.sensorOk = TRUE, !.cur = results.tenMinuteAvg,
                            !.at = now, !.readErr = TRUE, !.err = TRUE]
    ELSE IF lastReadings.st = "null"
        THEN [Looked(results, lastReadings) EXCEPT !.stored = storeOk,
                                                   !.writeErr = ~storeOk,
                                                   !.err = ~storeOk]
    ELSE
        LET out == Compared(Looked(results, lastReadings),
                            Detect(lastReadings.tenMinuteAvg,
                                   results.tenMinuteAvg), notifyOk)
        IN  IF out.err THEN [out EXCEPT !.stored = FALSE]
            ELSE [out EXCEPT !.stored = storeOk, !.writeErr = ~storeOk,
                             !.err = ~storeOk]

\* checkAirQuality with the rejection of storeReadings caught and ignored
checkAirQuality_ignoreStoreError(results, lastReadings, storeOk, notifyOk) ==
    IF ~results.ok THEN [NoPoll EXCEPT !.err = TRUE]
    ELSE IF lastReadings.st = "error"
        THEN [NoPoll EXCEPT !.sensorOk = TRUE, !.cur = results.tenMinuteAvg,
                            !.at = now, !.readErr = TRUE, !.err = TRUE]
    ELSE IF lastReadings.st = "null"
        THEN [Looked(results, lastReadings) EXCEPT !.stored = storeOk,
                                                   !.writeErr = ~storeOk]
    ELSE [Compared(Looked(results, lastReadings),
                   Detect(lastReadings.tenMinuteAvg, results.tenMinuteAvg),
                   notifyOk)
            EXCEPT !.stored = storeOk, !.writeErr = ~storeOk]

\* checkAirQuality of the workers, given the results of the sensor read,
\* what previousReadings returned, and whether storeReadings and notify
\* resolve: what it did. Order: getSensorData, previousReadings,
\* storeReadings, then the test for a previous reading and the comparison.
checkAirQuality(results, lastReadings, storeOk, notifyOk) ==
    IF ~results.ok THEN [NoPoll EXCEPT !.err = TRUE]
    ELSE IF lastReadings.st = "error"
        THEN [NoPoll EXCEPT !.sensorOk = TRUE, !.cur = results.tenMinuteAvg,
                            !.at = now, !.readErr = TRUE, !.err = TRUE]
    ELSE IF ~storeOk
        THEN [Looked(results, lastReadings) EXCEPT !.writeErr = TRUE,
                                                   !.err = TRUE]
    ELSE IF lastReadings.st = "null"
        THEN [Looked(results, lastReadings) EXCEPT !.stored = TRUE]
    ELSE Compared(Looked(results, lastReadings),
                  Detect(lastReadings.tenMinuteAvg, results.tenMinuteAvg),
                  notifyOk)

\* the sensor's latest timestamp after a read that returned results
SeenTs(results) == IF results.ok THEN results.ts ELSE sensorTs

----------------------------------------------------------------------------
(* kv worker *)

\* JSON.stringify followed by JSON.parse of a number: NaN comes back as null
JSONRoundTrip(v) == IF v = NaN THEN JNull ELSE v

KV_TTL == 3600

\* STATE.put("last_readings", JSON.stringify(r), {expirationTtl: 3600});
\* kind is not stored, it records which path wrote the key
kvStoreReadings(r, writer) ==
    <<[tenMinuteAvg |-> JSONRoundTrip(r.tenMinuteAvg),
       orig |-> r.tenMinuteAvg, kind |-> writer, exp |-> now + KV_TTL]>>

\* STATE.get("last_readings", "json")
kvPreviousReadings ==
    IF kvLastReadings = <<>> \/ now >= kvLastReadings[1].exp
        THEN NoReading("null")
    ELSE [st |-> "row", tenMinuteAvg |-> kvLastReadings[1].tenMinuteAvg,
          orig |-> kvLastReadings[1].orig, kind |-> kvLastReadings[1].kind,
          ts |-> 0]

KvCheckAirQuality ==
    /\ variant = "kv"
    /\ nOps < MaxOps
    /\ \E results \in SensorResults(WorkerPMs, {0}) :
       \E storeOk \in Outcomes(results.ok) :
       \E notifyOk \in Outcomes(results.ok /\ storeOk) :
        LET out == checkAirQuality(results, kvPreviousReadings, storeOk,
                                   notifyOk)
        IN  /\ poll' = out
            /\ kvLastReadings' = IF out.stored
                                    THEN kvStoreReadings(results, "interval")
                                    ELSE kvLastReadings
            /\ sensorTs' = SeenTs(results)
    /\ prevPoll' = Summary(poll)
    /\ lastOp' = "checkAirQuality"
    /\ nOps' = nOps + 1
    /\ UNCHANGED <<variant, now, justStarted, last10mReading,
                   kvLastAdhocRefresh, kvLastDailyReport, db, nAdv>>
    /\ report' = "none"
    /\ UNCHANGED auxVars

\* local wall-clock hour (the configured zone is taken to be UTC)
Hour(t) == (t % 86400) \div 3600

DAILY_CUTOFF_HOUR == 8
DAILY_PERIOD == 82800
ADHOC_DEBOUNCE == 1800

\* the two tests of sendDailyReport without the test of the hour
dailyReportDue_noCutoff(hour, lastReport, nowUnix) ==
    lastReport + DAILY_PERIOD < nowUnix

\* the two tests of sendDailyReport with <= in the second
dailyReportDue_inclusive(hour, lastReport, nowUnix) ==
    /\ hour >= DAILY_CUTOFF_HOUR
    /\ lastReport + DAILY_PERIOD <= nowUnix

\* the two tests of sendDailyReport: not before the cutoff hour, and the
\* last report more than 23 hours back
dailyReportDue(hour, lastReport, nowUnix) ==
    /\ hour >= DAILY_CUTOFF_HOUR
    /\ lastReport + DAILY_PERIOD < nowUnix

\* getAdhocReportReadings: the keys it leaves, given the results of the
\* sensor read it may make and whether its writes resolve
kvGetAdhocReportReadings(results, storeOk, writer) ==
    LET secondsSince == now - kvLastAdhocRefresh
        prevReadings == kvPreviousReadings
    IN  IF secondsSince > ADHOC_DEBOUNCE \/ prevReadings.st = "null"
            THEN IF ~results.ok \/ ~storeOk
                    THEN [ok |-> FALSE, fetched |-> TRUE,
                          last_readings |-> kvLastReadings,
                          refresh |-> kvLastAdhocRefresh]
                 ELSE [ok |-> TRUE, fetched |-> TRUE,
                       last_readings |-> kvStoreReadings(results, writer),
                       refresh |-> now]
        ELSE [ok |-> TRUE, fetched |-> FALSE,
              last_readings |-> kvLastReadings,
              refresh |-> kvLastAdhocRefresh]

\* GET PRIVATE_REPORT_URL: generateReport
KvAdhocReport ==
    /\ variant = "kv"
    /\ nOps < MaxOps
    /\ \E results \in SensorResults(ReportPMs, {0}) :
       \E storeOk \in Outcomes(results.ok) :
        LET r == kvGetAdhocReportReadings(results, storeOk, "adhoc")
        IN  /\ kvLastReadings' = r.last_readings
            /\ kvLastAdhocRefresh' = r.refresh
            /\ sensorTs' = IF r.fetched THEN SeenTs(results) ELSE sensorTs
    /\ lastOp' = "adhocReport"
    /\ nOps' = nOps + 1
    /\ UNCHANGED <<variant, now, justStarted, last10mReading,
                   kvLastDailyReport, db, poll, prevPoll, nAdv>>
    /\ report' = "none"
    /\ UNCHANGED auxVars

\* what publishPushoverMessage's fetch meets: a 2xx answer, another status,
\* or no answer at all (the fetch rejects)
PublishAnswers == {"ok", "status", "reject"}

\* how a sendDailyReport that was due ended: "error" when generateReport
\* rejected, "delivered" when the message was accepted, "failed" otherwise
Delivery(generated, publish) ==
    IF ~generated THEN "error"
    ELSE IF publish = "ok" THEN "delivered"
    ELSE "failed"

\* sendDailyReport; report "skipped" when it is too early or not yet due
KvSendDailyReport ==
    /\ variant = "kv"
    /\ nOps < MaxOps
    /\ IF dailyReportDue(Hour(now), kvLastDailyReport, now)
        THEN \E results \in SensorResults(ReportPMs, {0}) :
             \E storeOk \in Outcomes(results.ok),
                publish \in PublishAnswers :
                LET r == kvGetAdhocReportReadings(results, storeOk, "daily")
                IN  /\ kvLastReadings' = r.last_readings
                    /\ kvLastAdhocRefresh' = r.refresh
                    /\ sensorTs' = IF r.fetched THEN SeenTs(results)
                                   ELSE sensorTs
                    /\ kvLastDailyReport' =
                            IF r.ok /\ publish # "reject" THEN now
                            ELSE kvLastDailyReport
                    /\ report' = Delivery(r.ok, publish)
       ELSE /\ UNCHANGED <<kvLastReadings, kvLastAdhocRefresh,
                           kvLastDailyReport, sensorTs>>
            /\ report' = "skipped"
    /\ lastOp' = "sendDailyReport"
    /\ nOps' = nOps + 1
    /\ UNCHANGED <<variant, now, justStarted, last10mReading, db, poll,
                   prevPoll, nAdv>>
    /\ UNCHANGED auxVars

----------------------------------------------------------------------------
(* d1 worker *)

ONE_HOUR == 3600

\* a REAL bound to NaN is stored as NULL
d1Bind(v) == IF v = NaN THEN JNull ELSE v

\* INSERT INTO reading (ts, kind, ..., ten_minute_avg).
\* The table keeps every row; the model keeps the rows a query can still
\* return. A row of the same kind with a ts at most the new row's is
\* shadowed for good: every lookup is "greatest id among the rows of a kind
\* with ts >= bound", the only deletion is "ts <= bound", so wherever the
\* older row qualifies the new one does and wins.
d1StoreReadings(r, kind) ==
    LET visible(row) == ~(row.kind = kind /\ row.ts <= r.ts)
    IN  Append(SelectSeq(db, visible),
               [ts |-> r.ts, kind |-> kind,
                ten_minute_avg |-> d1Bind(r.tenMinuteAvg),
                orig |-> r.tenMinuteAvg])

MaxOf(S) == CHOOSE x \in S : \A y \in S : y <= x

\* previousReadings(env, {kind, maxAge}) on the rows of table at time t,
\* returning the qualifying row with the greatest ts (ORDER BY ts DESC)
previousReadings_latestTs(table, t, kind, maxAge, dbOk) ==
    LET ids == {i \in 1..Len(table) :
                    /\ table[i].kind = kind
                    /\ maxAge = 0 \/ table[i].ts >= t - maxAge}
    IN  IF ~dbOk THEN NoReading("error")
        ELSE IF ids = {} THEN NoReading("null")
        ELSE LET row == table[CHOOSE i \in ids :
                                \A j \in ids : table[j].ts <= table[i].ts]
             IN  IF row.ten_minute_avg = JNull THEN NoReading("error")
                 ELSE [st |-> "row", tenMinuteAvg |-> row.ten_minute_avg,
                       orig |-> row.orig, kind |-> row.kind, ts |-> row.ts]

\* previousReadings(env, {kind, maxAge}) on the rows of table at time t: the
\* row with the greatest id among those of the kind whose ts is within
\* maxAge of t (maxAge 0: no condition on ts). The lookup rejects when the
\* database does (dbOk false: also a row whose other columns do not parse)
\* and when ten_minute_avg does not parse as a number.
previousReadings(table, t, kind, maxAge, dbOk) ==
    LET ids == {i \in 1..Len(table) :
                    /\ table[i].kind = kind
                    /\ maxAge = 0 \/ table[i].ts >= t - maxAge}
    IN  IF ~dbOk THEN NoReading("error")
        ELSE IF ids = {} THEN NoReading("null")
        ELSE LET row == table[MaxOf(ids)]
             IN  IF row.ten_minute_avg = JNull THEN NoReading("error")
                 ELSE [st |-> "row", tenMinuteAvg |-> row.ten_minute_avg,
                       orig |-> row.orig, kind |-> row.kind, ts |-> row.ts]

\* previousReadings on the worker's table with the condition on ts left
\* out of the query
d1PreviousReadings_noMaxAge(kind, maxAge, dbOk) ==
    previousReadings(db, now, kind, 0, dbOk)

\* previousReadings on the worker's table, now
d1PreviousReadings(kind, maxAge, dbOk) ==
    previousReadings(db, now, kind, maxAge, dbOk)

FOUR_WEEKS == 2419200

\* removeOldReadings with a retention of half an hour
removeOldReadings_halfHour(table, t) ==
    LET minTs == t - 1800
        deleted(row) == row.ts <= minTs
        kept(row) == ~deleted(row)
    IN  [table |-> SelectSeq(table, kept),
         deleted |-> SelectSeq(table, deleted)]

\* removeOldReadings(env) on the rows of table at time t: DELETE FROM
\* reading WHERE ts <= minTs; the rows it leaves and the rows it deletes
removeOldReadings(table, t) ==
    LET minTs == t - FOUR_WEEKS
        deleted(row) == row.ts <= minTs
        kept(row) == ~deleted(row)
    IN  [table |-> SelectSeq(table, kept),
         deleted |-> SelectSeq(table, deleted)]

D1CheckAirQuality ==
    /\ variant = "d1"
    /\ nOps < MaxOps
    /\ \E results \in SensorResults(WorkerPMs, SensorAges) :
       \E dbOk \in Outcomes(results.ok) :
       \E storeOk \in Outcomes(results.ok /\ dbOk) :
       \E notifyOk \in Outcomes(results.ok /\ dbOk /\ storeOk) :
        LET out == checkAirQuality(
                       results, d1PreviousReadings("interval", ONE_HOUR, dbOk),
                       storeOk, notifyOk)
        IN  /\ poll' = out
            /\ db' = IF out.stored THEN d1StoreReadings(results, "interval")
                     ELSE db
            /\ sensorTs' = SeenTs(results)
    /\ prevPoll' = Summary(poll)
    /\ lastOp' = "checkAirQuality"
    /\ nOps' = nOps + 1
    /\ UNCHANGED <<variant, now, justStarted, last10mReading, kvLastReadings,
                   kvLastAdhocRefresh, kvLastDailyReport, nAdv>>
    /\ report' = "none"
    /\ UNCHANGED auxVars

\* getAdhocReportReadings(env, kind): the table it leaves
d1GetAdhocReportReadings(kind, results, dbOk, storeOk) ==
    LET lastAdhocReport == d1PreviousReadings(kind, ONE_HOUR, dbOk)
        ageInSeconds == now - lastAdhocReport.ts
    IN  IF lastAdhocReport.st = "error"
            THEN [ok |-> FALSE, fetched |-> FALSE, db |-> db]
        ELSE IF ageInSeconds > ADHOC_DEBOUNCE \/ lastAdhocReport.st = "null"
            THEN IF ~results.ok \/ ~storeOk
                    THEN [ok |-> FALSE, fetched |-> TRUE, db |-> db]
                 ELSE [ok |-> TRUE, fetched |-> TRUE,
                       db |-> d1StoreReadings(results, kind)]
        ELSE [ok |-> TRUE, fetched |-> FALSE, db |-> db]

\* GET /: generateReport(env, "adhoc")
D1AdhocReport ==
    /\ variant = "d1"
    /\ nOps < MaxOps
    /\ \E results \in SensorResults(ReportPMs, {0}), dbOk \in BOOLEAN :
       \E storeOk \in Outcomes(results.ok /\ dbOk) :
        LET r == d1GetAdhocReportReadings("adhoc", results, dbOk, storeOk)
        IN  /\ db' = r.db
            /\ sensorTs' = IF r.fetched THEN SeenTs(results) ELSE sensorTs
    /\ lastOp' = "adhocReport"
    /\ nOps' = nOps + 1
    /\ UNCHANGED <<variant, now, justStarted, last10mReading, kvLastReadings,
                   kvLastAdhocRefresh, kvLastDailyReport, poll, prevPoll,
                   nAdv>>
    /\ report' = "none"
    /\ UNCHANGED auxVars

\* sendDailyReport(env): the ts of the last daily reading is the marker
D1SendDailyReport ==
    /\ variant = "d1"
    /\ nOps < MaxOps
    /\ \E dbOk \in BOOLEAN :
        LET lastReport == d1PreviousReadings("daily", 0, dbOk)
        IN  IF /\ lastReport.st # "error"
               /\ dailyReportDue(Hour(now), lastReport.ts, now)
                THEN \E results \in SensorResults(ReportPMs, {0}) :
                     \E storeOk \in Outcomes(results.ok),
                        publish \in PublishAnswers :
                        LET r == d1GetAdhocReportReadings("daily", results,
                                                          dbOk, storeOk)
                        IN  /\ db' = r.db
                            /\ sensorTs' = IF r.fetched THEN SeenTs(results)
                                           ELSE sensorTs
                            /\ report' = Delivery(r.ok, publish)
            ELSE /\ UNCHANGED <<db, sensorTs>>
                 /\ report' = IF Hour(now) >= DAILY_CUTOFF_HOUR
                                    /\ lastReport.st = "error"
                                THEN "error" ELSE "skipped"
    /\ lastOp' = "sendDailyReport"
    /\ nOps' = nOps + 1
    /\ UNCHANGED <<variant, now, justStarted, last10mReading, kvLastReadings,
                   kvLastAdhocRefresh, kvLastDailyReport, poll, prevPoll,
                   nAdv>>
    /\ UNCHANGED auxVars

----------------------------------------------------------------------------
(* Clock *)

\* The daemon's checkAirQuality reads no clock (staleness is decided inside
\* the sensor read, whose result is an input here), so the clock only moves
\* for the workers.
Advance ==
    /\ variant \in {"kv", "d1"}
    /\ nAdv < MaxAdvance
    /\ \E d \in Steps : now' = now + d
    /\ nAdv' = nAdv + 1
    /\ lastOp' = "advance"
    /\ UNCHANGED <<variant, justStarted, last10mReading, kvLastReadings,
                   kvLastAdhocRefresh, kvLastDailyReport, db, sensorTs, poll,
                   prevPoll, nOps>>
    /\ report' = "none"
    /\ UNCHANGED auxVars

----------------------------------------------------------------------------
(* The components taken on their own are idle while the pipeline runs *)

NoResult == [st |-> "pending", rt |-> 0, tenmavg |-> 0, stale |-> "absent"]

ReaderIdle ==
    /\ rdImpl = "none"
    /\ rdCfg = [purpleAirSensorID |-> "", backupSensorID |-> ""]
    /\ rdApi = <<>>
    /\ rdCur = ""
    /\ rdFetched = <<>>
    /\ rdResult = NoResult

NotifierIdle ==
    /\ ntChannel = "none"
    /\ ntEvent = "none"
    /\ ntApi = <<>>
    /\ ntSent = 0
    /\ ntResult = "pending"

NoConfig ==
    [purpleAirSensorID |-> FALSE, iftttWHKey |-> FALSE, twilioSid |-> FALSE,
     twilioKey |-> FALSE, twilioFrom |-> FALSE, smsRecipients |-> FALSE]

StartIdle ==
    /\ stCfg = NoConfig
    /\ stPc = "none"
    /\ stNotifier = "none"
    /\ stErr = ""
    /\ stPolls = 0
    /\ stNetCalls = 0

AqiIdle == aqIn = <<>> /\ aqOut = <<>>

StoreIdle ==
    /\ tbl = <<>>
    /\ qAsked = <<>>
    /\ qAnswer = NoReading("none")
    /\ expired = <<>>

CronIdle ==
    crClock = 0 /\ crFires = 0 /\ crInFlight = {} /\ crNotified = 0

NoTick ==
    [active |-> FALSE, daily |-> "idle", poll |-> "idle", expire |-> "idle"]

NoServed == [st |-> "none", afterRefresh |-> FALSE]

SchedIdle ==
    /\ tick = NoTick
    /\ opFetched = FALSE
    /\ lastSentAt = 0
    /\ lastFetchAt = 0
    /\ served = NoServed

DaemonIdle ==
    /\ dmSnitch = FALSE
    /\ dmPolls = 0
    /\ dmDispatched = "none"
    /\ dmNaNSince = FALSE
    /\ dmPinged = FALSE

\* no request
NoRequest ==
    [method |-> "", pathname |-> "", psk |-> <<>>, from |-> <<>>,
     body |-> <<>>]

WebhookIdle ==
    /\ whReq = NoRequest
    /\ whRead = FALSE
    /\ whResponse = "none"

----------------------------------------------------------------------------

Init ==
    /\ variant \in {"go", "kv", "d1"}
    /\ now = StartOfRun
    /\ justStarted = TRUE
    /\ last10mReading = 0
    /\ kvLastReadings = <<>>
    /\ kvLastAdhocRefresh = 0
    /\ kvLastDailyReport = 0
    /\ db = <<>>
    /\ sensorTs = 0
    /\ poll = NoPoll
    /\ prevPoll = Summary(NoPoll)
    /\ lastOp = "init"
    /\ report = "none"
    /\ nOps = 0
    /\ nAdv = 0
    /\ ReaderIdle
    /\ NotifierIdle
    /\ StartIdle
    /\ AqiIdle
    /\ StoreIdle
    /\ CronIdle
    /\ SchedIdle
    /\ DaemonIdle
    /\ WebhookIdle

Next ==
    \/ GoCheckAirQuality
    \/ KvCheckAirQuality
    \/ KvAdhocReport
    \/ KvSendDailyReport
    \/ D1CheckAirQuality
    \/ D1AdhocReport
    \/ D1SendDailyReport
    \/ Advance

Spec == Init /\ [][Next]_vars

----------------------------------------------------------------------------
(* Sensor reader *)

MaxSubSensors == 2      \* entries of "results" in one response

STALE_AFTER == 600

\* a Stats string that decodes, with its v (realtime) and v1 (10-minute
\* average) in tenths; for the workers the sensor's stats object with its
\* pm2.5 and pm2.5_10minute
Stats(v, v1) == [ok |-> TRUE, v |-> v, v1 |-> v1]

\* a Stats string that does not decode
BadStats == [ok |-> FALSE, v |-> 0, v1 |-> 0]

\* seconds between a sub-sensor's LastSeen and now
LastSeenAges == {60, 600, 601}

\* the Stats strings of a response: 9.0 realtime with a 10-minute average
\* of 16.8, 21.0 with 19.2, or BadStats
StatsBlobs == {BadStats, Stats(90, 168), Stats(210, 192)}

SubSensors == {[age |-> a, stats |-> v] : a \in LastSeenAges, v \in StatsBlobs}

\* What the API answers for one sensor ID:
\*   "transport"  the request failed (rc.Do returned an error)
\*   "status"     a status other than 200 OK
\*   "badjson"    200 with a body that does not decode
\*   "results"    200 with the decoded list of sub-sensors
Response(kind, results) == [kind |-> kind, results |-> results]

FailedResponses ==
    {Response("transport", <<>>), Response("status", <<>>),
     Response("badjson", <<>>)}

PrimaryResponses ==
    FailedResponses
        \cup {Response("results", r) :
                r \in UNION {[1..k -> SubSensors] : k \in 0..MaxSubSensors}}

BackupResponses ==
    FailedResponses
        \cup {Response("results", r) :
                r \in {<<>>, <<[age |-> 60, stats |-> Stats(210, 192)]>>,
                       <<[age |-> 601, stats |-> Stats(210, 192)]>>,
                       <<[age |-> 60, stats |-> BadStats]>>}}

\* the v of every sub-sensor, and the v1 of every sub-sensor
rtPM25Readings(results) == [i \in 1..Len(results) |-> results[i].stats.v]
tenmPM25Readings(results) == [i \in 1..Len(results) |-> results[i].stats.v1]

RECURSIVE total(_)
total(n) == IF n = <<>> THEN 0 ELSE n[1] + total(Tail(n))

\* avg (the inputs are chosen to divide evenly); 0/0 is NaN
avg(n) == IF n = <<>> THEN NaN ELSE total(n) \div Len(n)

\* What a read returns. stale is the stale field of the reading: "true",
\* "false", or "absent" where the reading has no such field.
ReadOk(rt, tenmavg) ==
    [st |-> "ok", rt |-> rt, tenmavg |-> tenmavg, stale |-> "absent"]
ReadErr == [st |-> "error", rt |-> 0, tenmavg |-> 0, stale |-> "absent"]
\* return getPurpleAirSensorData(ctx, rc, cfg, cfg.backupSensorID)
ToBackup == [st |-> "backup", rt |-> 0, tenmavg |-> 0, stale |-> "absent"]

\* the test made before each use of the backup sensor without the
\* comparison of sensorID with the backup's: the call on the backup fails
\* over to the backup again, here up to the fourth fetch
canFailOver_fromBackup(cfg, sensorID) ==
    cfg.backupSensorID # "" /\ Len(rdFetched) < 3

\* the test made before each use of the backup sensor
canFailOver(cfg, sensorID) ==
    cfg.backupSensorID # "" /\ sensorID # cfg.backupSensorID

\* the loop over data.Results with each sub-sensor's concentrations
\* converted in the loop and the indices averaged at the return
readSubSensors_convertThenAverage(cfg, results, sensorID) ==
    LET stops == {i \in 1..Len(results) :
                    \/ results[i].age > STALE_AFTER
                    \/ results[i].stats = BadStats}
        rtAQIs == [i \in 1..Len(results) |-> aqiFromPM(results[i].stats.v)]
        tenmAQIs == [i \in 1..Len(results) |-> aqiFromPM(results[i].stats.v1)]
    IN  IF stops = {} THEN ReadOk(avg(rtAQIs), avg(tenmAQIs))
        ELSE LET i == CHOOSE x \in stops : \A y \in stops : x <= y
             IN  IF results[i].age > STALE_AFTER
                    THEN IF canFailOver(cfg, sensorID) THEN ToBackup
                         ELSE ReadErr
                 ELSE ReadErr

\* the loop over data.Results: the first sub-sensor that is stale or whose
\* Stats does not decode ends the call (staleness is tested first)
readSubSensors(cfg, results, sensorID) ==
    LET stops == {i \in 1..Len(results) :
                    \/ results[i].age > STALE_AFTER
                    \/ results[i].stats = BadStats}
    IN  IF stops = {}
            THEN ReadOk(aqiFromPM(avg(rtPM25Readings(results))),
                        aqiFromPM(avg(tenmPM25Readings(results))))
        ELSE LET i == CHOOSE x \in stops : \A y \in stops : x <= y
             IN  IF results[i].age > STALE_AFTER
                    THEN IF canFailOver(cfg, sensorID) THEN ToBackup
                         ELSE ReadErr
                 ELSE ReadErr

\* getPurpleAirSensorData with zero results always an error
getPurpleAirSensorData_noFailoverOnZero(cfg, resp, sensorID) ==
    IF resp.kind \in {"transport", "status", "badjson"} THEN ReadErr
    ELSE IF Len(resp.results) = 0 THEN ReadErr
    ELSE readSubSensors(cfg, resp.results, sensorID)

\* getPurpleAirSensorData without the return of the zero-result error
getPurpleAirSensorData_zeroFallsThrough(cfg, resp, sensorID) ==
    IF resp.kind \in {"transport", "status", "badjson"} THEN ReadErr
    ELSE IF Len(resp.results) = 0 /\ canFailOver(cfg, sensorID) THEN ToBackup
    ELSE readSubSensors(cfg, resp.results, sensorID)

\* getPurpleAirSensorData with a status other than 200 handled like an
\* unusable candidate
getPurpleAirSensorData_failoverOnStatus(cfg, resp, sensorID) ==
    IF resp.kind \in {"transport", "badjson"} THEN ReadErr
    ELSE IF resp.kind = "status"
        THEN IF canFailOver(cfg, sensorID) THEN ToBackup ELSE ReadErr
    ELSE IF Len(resp.results) = 0
        THEN IF canFailOver(cfg, sensorID) THEN ToBackup ELSE ReadErr
    ELSE readSubSensors(cfg, resp.results, sensorID)

\* One call of getPurpleAirSensorData for sensorID, given the API's answer:
\* a reading, an error, or the recursive call on the backup sensor.
getPurpleAirSensorData(cfg, resp, sensorID) ==
    IF resp.kind \in {"transport", "status", "badjson"} THEN ReadErr
    ELSE IF Len(resp.results) = 0
        THEN IF canFailOver(cfg, sensorID) THEN ToBackup ELSE ReadErr
    ELSE readSubSensors(cfg, resp.results, sensorID)

\* getSensorData of the workers: one sensor, no backup; the response schema
\* wants the sensor's stats
getSensorData(resp) ==
    IF resp.kind \in {"transport", "status", "badjson"} THEN ReadErr
    ELSE IF Len(resp.results) = 0 \/ resp.results[1].stats = BadStats
        THEN ReadErr
    ELSE ReadOk(aqiFromPM(resp.results[1].stats.v),
                aqiFromPM(resp.results[1].stats.v1))

\* the getSensorData that preceded it: the body is used as it decodes,
\* without a schema (reading a field of a missing object throws), and the
\* reading carries stale, Date.now() - time_stamp * 1000 > STALE_THRESHOLD
legacyGetSensorData(resp) ==
    IF resp.kind \in {"transport", "status", "badjson"} THEN ReadErr
    ELSE IF Len(resp.results) = 0 \/ resp.results[1].stats = BadStats
        THEN ReadErr
    ELSE [ReadOk(aqiFromPM(resp.results[1].stats.v),
                 aqiFromPM(resp.results[1].stats.v1))
            EXCEPT !.stale = IF resp.results[1].age > STALE_AFTER
                                THEN "true" ELSE "false"]

\* r.stale as a condition: an absent field is undefined, which is falsy
Truthy(stale) == stale = "true"

\* the column stale that storeReadings binds for the reading r
storedStale(r) == IF Truthy(r.stale) THEN 1 ELSE 0

\* whether the message built from the reading r has the staleness caveat
staleCaveat(r) == Truthy(r.stale)

GoGetPurpleAirSensorData ==
    /\ rdImpl = "go"
    /\ rdCur # ""
    /\ LET r == getPurpleAirSensorData(rdCfg, rdApi[rdCur], rdCur)
       IN  IF r.st = "backup"
                THEN rdCur' = rdCfg.backupSensorID /\ rdResult' = rdResult
           ELSE rdCur' = "" /\ rdResult' = r
    /\ rdFetched' = Append(rdFetched, rdCur)
    /\ UNCHANGED <<rdImpl, rdCfg, rdApi>>
    /\ UNCHANGED readerOthers

TsGetSensorData ==
    /\ rdImpl = "ts"
    /\ rdCur # ""
    /\ rdResult' = getSensorData(rdApi[rdCur])
    /\ rdCur' = ""
    /\ rdFetched' = Append(rdFetched, rdCur)
    /\ UNCHANGED <<rdImpl, rdCfg, rdApi>>
    /\ UNCHANGED readerOthers

LegacyGetSensorData ==
    /\ rdImpl = "legacy"
    /\ rdCur # ""
    /\ rdResult' = legacyGetSensorData(rdApi[rdCur])
    /\ rdCur' = ""
    /\ rdFetched' = Append(rdFetched, rdCur)
    /\ UNCHANGED <<rdImpl, rdCfg, rdApi>>
    /\ UNCHANGED readerOthers

\* the pipeline's variables while a component is taken on its own
PipelineIdle ==
    /\ variant = "none"
    /\ now = StartOfRun
    /\ justStarted = TRUE
    /\ last10mReading = 0
    /\ kvLastReadings = <<>>
    /\ kvLastAdhocRefresh = 0
    /\ kvLastDailyReport = 0
    /\ db = <<>>
    /\ sensorTs = 0
    /\ poll = NoPoll
    /\ prevPoll = Summary(NoPoll)
    /\ lastOp = "init"
    /\ report = "none"
    /\ nOps = 0
    /\ nAdv = 0

ReaderInit ==
    /\ PipelineIdle
    /\ NotifierIdle
    /\ StartIdle
    /\ AqiIdle
    /\ StoreIdle
    /\ CronIdle
    /\ SchedIdle
    /\ DaemonIdle
    /\ WebhookIdle
    /\ rdImpl \in {"go", "ts", "legacy"}
    /\ rdCfg \in {[purpleAirSensorID |-> "A", backupSensorID |-> b] :
                    b \in IF rdImpl = "go" THEN {"", "A", "B"} ELSE {""}}
    /\ rdApi \in {[A |-> a, B |-> b] :
                    a \in PrimaryResponses, b \in BackupResponses}
    /\ rdCur = rdCfg.purpleAirSensorID
    /\ rdFetched = <<>>
    /\ rdResult = NoResult

ReaderNext ==
    GoGetPurpleAirSensorData \/ TsGetSensorData \/ LegacyGetSensorData

ReaderSpec == ReaderInit /\ [][ReaderNext]_vars

----------------------------------------------------------------------------
(* Notifier *)

MaxRecipients == 3      \* entries of the recipients list

\* the request did not get an answer (rc.Do returned an error, fetch
\* rejected)
NoAnswer == 0

\* what the service may answer to one send: no answer, or a status
Answers == {NoAnswer, 200, 201, 400}

\* the channels: the daemon's webhook and SMS notifiers, the worker's SMS
\* notify, the worker's push notify
Channels == {"ifttt", "sms_go", "sms_ts", "push"}

\* whether one send counts as done for the channel:
\*   ifttt   resp.StatusCode == http.StatusOK
\*   sms_go  resp.StatusCode == http.StatusCreated
\*   sms_ts  res.ok
\*   push    the fetch resolved, whatever the status
sendOk(channel, answer) ==
    CASE channel = "ifttt" -> answer = 200
      [] channel = "sms_go" -> answer = 201
      [] channel = "sms_ts" -> answer \in 200..299
      [] channel = "push" -> answer # NoAnswer

\* the loop over the recipients with the outcome of the last send deciding
notifyAfterSend_lastWins(ok, sent, n) ==
    IF sent < n THEN "pending"
    ELSE IF ok THEN "ok"
    ELSE "error"

\* notify after a send: a failed send returns the error at once, the last
\* send done returns success
notifyAfterSend(ok, sent, n) ==
    IF ~ok THEN "error"
    ELSE IF sent = n THEN "ok"
    ELSE "pending"

\* one send of the notify under way
SendOne ==
    /\ ntResult = "pending"
    /\ ntSent < Len(ntApi)
    /\ ntSent' = ntSent + 1
    /\ ntResult' = notifyAfterSend(sendOk(ntChannel, ntApi[ntSent + 1]),
                                   ntSent + 1, Len(ntApi))
    /\ UNCHANGED <<ntChannel, ntEvent, ntApi>>
    /\ UNCHANGED notifierOthers

\* iftttNotifier.notify: one POST to the trigger named after the event
IftttNotify == ntChannel = "ifttt" /\ SendOne

\* smsNotifier.notify: an unknown event is an error before any send
GoSmsNotify ==
    /\ ntChannel = "sms_go"
    /\ IF ntEvent \notin {"air_quality_good", "air_quality_bad"}
            THEN /\ ntResult = "pending"
                 /\ ntResult' = "error"
                 /\ UNCHANGED <<ntChannel, ntEvent, ntApi, ntSent>>
                 /\ UNCHANGED notifierOthers
       ELSE SendOne

\* notify / sendSms of the SMS worker
TsSmsNotify == ntChannel = "sms_ts" /\ SendOne

\* notify / publishPushoverMessage
PushNotify == ntChannel = "push" /\ SendOne

NotifierInit ==
    /\ PipelineIdle
    /\ ReaderIdle
    /\ StartIdle
    /\ AqiIdle
    /\ StoreIdle
    /\ CronIdle
    /\ SchedIdle
    /\ DaemonIdle
    /\ WebhookIdle
    /\ ntChannel \in Channels
    /\ ntEvent \in IF ntChannel \in {"ifttt", "sms_go"}
                    THEN {"air_quality_good", "air_quality_bad", "bogus"}
                    ELSE {"air_quality_good", "air_quality_bad"}
    /\ ntApi \in UNION {[1..n -> Answers] :
                    n \in IF ntChannel \in {"sms_go", "sms_ts"}
                            THEN 1..MaxRecipients ELSE {1}}
    /\ ntSent = 0
    /\ ntResult = "pending"

NotifierNext == IftttNotify \/ GoSmsNotify \/ TsSmsNotify \/ PushNotify

NotifierSpec == NotifierInit /\ [][NotifierNext]_vars

----------------------------------------------------------------------------
(* Start of the daemon *)

MaxPolls == 2           \* calls of checkAirQuality after the start

\* initNotifier with the SMS branch taken without the recipients
initNotifier_noRecipientsTest(cfg) ==
    IF cfg.iftttWHKey THEN [n |-> "ifttt", err |-> FALSE]
    ELSE IF cfg.twilioSid /\ cfg.twilioKey /\ cfg.twilioFrom
        THEN [n |-> "sms", err |-> FALSE]
    ELSE [n |-> "none", err |-> TRUE]

\* initNotifier: the notifier built from the configuration, or the error
\* "improper notification configuration"; it sends nothing
initNotifier(cfg) ==
    IF cfg.iftttWHKey THEN [n |-> "ifttt", err |-> FALSE]
    ELSE IF cfg.twilioSid /\ cfg.twilioKey /\ cfg.smsRecipients
            /\ cfg.twilioFrom
        THEN [n |-> "sms", err |-> FALSE]
    ELSE [n |-> "none", err |-> TRUE]

\* _main up to s.justStarted = true
MainStart ==
    /\ stPc = "start"
    /\ IF ~stCfg.purpleAirSensorID
            THEN /\ stPc' = "exited"
                 /\ stErr' = "empty purpleair sensor id"
                 /\ stNotifier' = stNotifier
       ELSE LET r == initNotifier(stCfg)
            IN  IF r.err
                    THEN /\ stPc' = "exited"
                         /\ stErr' = "failed to init notifier"
                         /\ stNotifier' = stNotifier
                ELSE /\ stPc' = "ready"
                     /\ stErr' = stErr
                     /\ stNotifier' = r.n
    /\ UNCHANGED <<stCfg, stPolls, stNetCalls>>
    /\ UNCHANGED startOthers

\* _ = checkAirQuality(ctx, cfg, s, rc, n): the first poll; each poll makes
\* the request for the sensor data
MainFirstPoll ==
    /\ stPc = "ready"
    /\ stPc' = "running"
    /\ stPolls' = stPolls + 1
    /\ stNetCalls' = stNetCalls + 1
    /\ UNCHANGED <<stCfg, stNotifier, stErr>>
    /\ UNCHANGED startOthers

\* the function handed to c.AddFunc("* * * * *", ...)
MainCronPoll ==
    /\ stPc = "running"
    /\ stPolls < 1 + MaxPolls
    /\ stPolls' = stPolls + 1
    /\ stNetCalls' = stNetCalls + 1
    /\ UNCHANGED <<stCfg, stPc, stNotifier, stErr>>
    /\ UNCHANGED startOthers

StartInit ==
    /\ PipelineIdle
    /\ ReaderIdle
    /\ NotifierIdle
    /\ AqiIdle
    /\ StoreIdle
    /\ CronIdle
    /\ SchedIdle
    /\ DaemonIdle
    /\ WebhookIdle
    /\ stCfg \in [{"purpleAirSensorID", "iftttWHKey", "twilioSid",
                   "twilioKey", "twilioFrom", "smsRecipients"} -> BOOLEAN]
    /\ stPc = "start"
    /\ stNotifier = "none"
    /\ stErr = ""
    /\ stPolls = 0
    /\ stNetCalls = 0

StartNext == MainStart \/ MainFirstPoll \/ MainCronPoll

StartSpec == StartInit /\ [][StartNext]_vars

----------------------------------------------------------------------------
(* AQI converter *)

MaxPM == 5005           \* greatest concentration converted, in tenths

\* how far above the first concentration of a pair the second lies, in
\* tenths
Gaps == {0, 1, 2, 10}

\* the pairs of concentrations a <= b handed to the converter
PMPairs ==
    {p \in {<<a, a + g>> : a \in 0..MaxPM, g \in Gaps} : p[2] <= MaxPM}

\* inputs outside the range of a concentration: NaN, -1000.5, -5, -0.1,
\* 1000 itself, 1000.1, 1000.5 and 2000
OutOfRangePMs == {NaN, 0 - 10005, 0 - 50, 0 - 1, 10000, 10001, 10005, 20000}

\* the same input handed to the converter twice
OutOfRangePairs == {<<a, a>> : a \in OutOfRangePMs}

\* aqiFromPM applied to both concentrations of the pair
ConvertPair ==
    /\ aqIn # <<>>
    /\ aqOut = <<>>
    /\ aqOut' = <<aqiFromPM(aqIn[1]), aqiFromPM(aqIn[2])>>
    /\ UNCHANGED aqIn
    /\ UNCHANGED aqiOthers

AqiInit ==
    /\ PipelineIdle
    /\ ReaderIdle
    /\ NotifierIdle
    /\ StartIdle
    /\ StoreIdle
    /\ CronIdle
    /\ SchedIdle
    /\ DaemonIdle
    /\ WebhookIdle
    /\ aqIn \in PMPairs \cup OutOfRangePairs
    /\ aqOut = <<>>

AqiNext == ConvertPair

AqiSpec == AqiInit /\ [][AqiNext]_vars

----------------------------------------------------------------------------
(* Reading store *)

MaxRows == 3            \* rows inserted into the table

Kinds == {"interval", "daily"}

\* the ts of a reading handed to storeReadings: four weeks, four weeks less
\* a second, an hour and a second, an hour, and a minute before now
StoredTs ==
    {now - FOUR_WEEKS, now - FOUR_WEEKS + 1, now - 3601, now - 3600, now - 60}

\* its 10-minute average: AQI 66, NaN
StoredAvgs == {660, NaN}

\* the readings handed to storeReadings; the NaN is a minute old
StoredReadings ==
    {r \in [ts : StoredTs, tenMinuteAvg : StoredAvgs] :
        r.tenMinuteAvg = NaN => r.ts = now - 60}

\* storeReadings(env, r): one more row, with the next id
storeReadings(table, r, kind) ==
    Append(table, [ts |-> r.ts, kind |-> kind,
                   ten_minute_avg |-> d1Bind(r.tenMinuteAvg),
                   orig |-> r.tenMinuteAvg])

StoreReadings ==
    /\ Len(tbl) < MaxRows
    /\ \E kind \in Kinds, r \in StoredReadings :
        tbl' = storeReadings(tbl, r, kind)
    /\ qAsked' = <<>>
    /\ qAnswer' = NoReading("none")
    /\ expired' = <<>>
    /\ UNCHANGED storeOthers

PreviousReadings ==
    /\ \E kind \in Kinds, maxAge \in {0, ONE_HOUR}, dbOk \in BOOLEAN :
        /\ qAsked' = <<kind, maxAge>>
        /\ qAnswer' = previousReadings(tbl, now, kind, maxAge, dbOk)
    /\ UNCHANGED <<tbl, expired>>
    /\ UNCHANGED storeOthers

\* removeOldReadings(env) resolving; one that rejects leaves the table as
\* it is
RemoveOldReadings ==
    /\ tbl # <<>>
    /\ LET r == removeOldReadings(tbl, now)
       IN  /\ tbl' = r.table
           /\ expired' = r.deleted
    /\ qAsked' = <<>>
    /\ qAnswer' = NoReading("none")
    /\ UNCHANGED storeOthers

StoreInit ==
    /\ PipelineIdle
    /\ ReaderIdle
    /\ NotifierIdle
    /\ StartIdle
    /\ AqiIdle
    /\ CronIdle
    /\ SchedIdle
    /\ DaemonIdle
    /\ WebhookIdle
    /\ tbl = <<>>
    /\ qAsked = <<>>
    /\ qAnswer = NoReading("none")
    /\ expired = <<>>

StoreNext == StoreReadings \/ PreviousReadings \/ RemoveOldReadings

StoreSpec == StoreInit /\ [][StoreNext]_vars

----------------------------------------------------------------------------
(* The daemon's cron *)

MaxFires == 3           \* times the schedule fires

CRON_PERIOD == 60       \* "* * * * *"
READ_TIMEOUT == 30      \* getPurpleAirSensorData: context.WithTimeout
NOTIFY_TIMEOUT == 30    \* notify: context.WithTimeout

\* seconds the clock may advance by in one step
ClockSteps == {10, 20, 30}

\* the context deadline of the call a poll is waiting in
Deadline(p) ==
    p.since + (IF p.phase = "read" THEN READ_TIMEOUT ELSE NOTIFY_TIMEOUT)

\* the schedule fires at the start of a minute: the function handed to
\* AddFunc is started in a goroutine of its own, whatever earlier runs
\* are doing
CronFire ==
    /\ crFires < MaxFires
    /\ crClock = crFires * CRON_PERIOD
    /\ crFires' = crFires + 1
    /\ crInFlight' = crInFlight
            \cup {[started |-> crClock, phase |-> "read", since |-> crClock]}
    /\ UNCHANGED <<crClock, crNotified>>
    /\ UNCHANGED cronOthers

\* getPurpleAirSensorData returns: with an error, or with a reading that
\* is not a crossing, checkAirQuality returns; with a crossing it goes on
\* to notify
ReadReturns ==
    /\ \E p \in crInFlight :
        /\ p.phase = "read"
        /\ \E crossing \in BOOLEAN :
            crInFlight' =
                IF crossing
                    THEN (crInFlight \ {p})
                            \cup {[p EXCEPT !.phase = "notify",
                                            !.since = crClock]}
                ELSE crInFlight \ {p}
    /\ UNCHANGED <<crClock, crFires, crNotified>>
    /\ UNCHANGED cronOthers

\* notify returns and checkAirQuality with it
NotifyReturns ==
    /\ \E p \in crInFlight :
        /\ p.phase = "notify"
        /\ crInFlight' = crInFlight \ {p}
    /\ crNotified' = crNotified + 1
    /\ UNCHANGED <<crClock, crFires>>
    /\ UNCHANGED cronOthers

\* time passes, not beyond the next firing of the schedule and not beyond
\* the deadline of a call under way: at its deadline the call is still
\* under way, and it returns before the clock moves on
TimePasses ==
    /\ \E d \in ClockSteps :
        /\ crClock + d <= crFires * CRON_PERIOD
        /\ \A p \in crInFlight : crClock + d <= Deadline(p)
        /\ crClock' = crClock + d
    /\ UNCHANGED <<crFires, crInFlight, crNotified>>
    /\ UNCHANGED cronOthers

CronInit ==
    /\ PipelineIdle
    /\ ReaderIdle
    /\ NotifierIdle
    /\ StartIdle
    /\ AqiIdle
    /\ StoreIdle
    /\ SchedIdle
    /\ DaemonIdle
    /\ WebhookIdle
    /\ crClock = 0
    /\ crFires = 0
    /\ crInFlight = {}
    /\ crNotified = 0

CronNext == CronFire \/ ReadReturns \/ NotifyReturns \/ TimePasses

CronSpec == CronInit /\ [][CronNext]_vars

----------------------------------------------------------------------------
(* The workers' scheduled handler and report requests *)

MaxSchedOps == 2        \* scheduled invocations and report requests
MaxElapse == 2          \* times the clock advances

\* PM2.5 concentration the sensor reports: AQI 66 (what the poll compares
\* is the pipeline's subject, here only how its promise settles matters)
SchedPMs == {192}

\* how long before now the sensor-reported timestamp may lie when the daily
\* report reads the sensor
DailyAges == {0, 86400}

\* seconds the clock may advance by between invocations
ElapseSteps == {60, 1800, 82800}

\* when the first invocation may come: 07:00 and 09:00
SchedStarts == {Day0 + 7 * 3600, Day0 + 9 * 3600}

\* how the promise of a task settles
Settled(ok) == IF ok THEN "resolved" ELSE "rejected"

\* the scheduled event: Promise.all over the tasks, each started at once
Scheduled ==
    /\ variant \in {"kv", "d1"}
    /\ ~tick.active
    /\ nOps < MaxSchedOps
    /\ tick' = [active |-> TRUE, daily |-> "running", poll |-> "running",
                expire |-> IF variant = "d1" THEN "running" ELSE "idle"]
    /\ nOps' = nOps + 1
    /\ lastOp' = "scheduled"
    /\ report' = "none"
    /\ opFetched' = FALSE
    /\ served' = NoServed
    /\ UNCHANGED <<variant, now, justStarted, last10mReading, kvLastReadings,
                   kvLastAdhocRefresh, kvLastDailyReport, db, sensorTs, poll,
                   prevPoll, nAdv, lastSentAt, lastFetchAt>>
    /\ UNCHANGED schedOthers

\* sendDailyReport() of the tick, kv worker
KvTickDaily ==
    /\ variant = "kv"
    /\ tick.daily = "running"
    /\ IF dailyReportDue(Hour(now), kvLastDailyReport, now)
        THEN \E results \in SensorResults(SchedPMs, DailyAges) :
             \E storeOk \in Outcomes(results.ok),
                publish \in PublishAnswers :
                LET r == kvGetAdhocReportReadings(results, storeOk, "daily")
                IN  /\ kvLastReadings' = r.last_readings
                    /\ kvLastAdhocRefresh' = r.refresh
                    /\ sensorTs' = IF r.fetched THEN SeenTs(results)
                                   ELSE sensorTs
                    /\ kvLastDailyReport' =
                            IF r.ok /\ publish # "reject" THEN now
                            ELSE kvLastDailyReport
                    /\ report' = Delivery(r.ok, publish)
                    /\ opFetched' = r.fetched
                    /\ lastSentAt' = IF r.ok /\ publish = "ok" THEN now
                                     ELSE lastSentAt
                    /\ tick' = [tick EXCEPT
                                  !.daily = Settled(r.ok /\ publish # "reject")]
       ELSE /\ UNCHANGED <<kvLastReadings, kvLastAdhocRefresh,
                           kvLastDailyReport, sensorTs, lastSentAt>>
            /\ report' = "skipped"
            /\ opFetched' = FALSE
            /\ tick' = [tick EXCEPT !.daily = "resolved"]
    /\ lastOp' = "sendDailyReport"
    /\ served' = NoServed
    /\ UNCHANGED <<variant, now, justStarted, last10mReading, db, poll,
                   prevPoll, nOps, nAdv, lastFetchAt>>
    /\ UNCHANGED schedOthers

\* sendDailyReport(env) of the tick, d1 worker
D1TickDaily ==
    /\ variant = "d1"
    /\ tick.daily = "running"
    /\ \E dbOk \in Outcomes(Hour(now) >= DAILY_CUTOFF_HOUR) :
        LET lastReport == d1PreviousReadings("daily", 0, dbOk)
        IN  IF /\ lastReport.st # "error"
               /\ dailyReportDue(Hour(now), lastReport.ts, now)
                THEN \E results \in SensorResults(SchedPMs, DailyAges) :
                     \E storeOk \in Outcomes(results.ok),
                        publish \in PublishAnswers :
                        LET r == d1GetAdhocReportReadings("daily", results,
                                                          dbOk, storeOk)
                        IN  /\ db' = r.db
                            /\ sensorTs' = IF r.fetched THEN SeenTs(results)
                                           ELSE sensorTs
                            /\ report' = Delivery(r.ok, publish)
                            /\ opFetched' = r.fetched
                            /\ lastSentAt' = IF r.ok /\ publish = "ok" THEN now
                                             ELSE lastSentAt
                            /\ tick' = [tick EXCEPT !.daily =
                                          Settled(r.ok /\ publish # "reject")]
            ELSE /\ UNCHANGED <<db, sensorTs, lastSentAt>>
                 /\ opFetched' = FALSE
                 /\ IF Hour(now) >= DAILY_CUTOFF_HOUR
                        /\ lastReport.st = "error"
                        THEN /\ report' = "error"
                             /\ tick' = [tick EXCEPT !.daily = "rejected"]
                    ELSE /\ report' = "skipped"
                         /\ tick' = [tick EXCEPT !.daily = "resolved"]
    /\ lastOp' = "sendDailyReport"
    /\ served' = NoServed
    /\ UNCHANGED <<variant, now, justStarted, last10mReading, kvLastReadings,
                   kvLastAdhocRefresh, kvLastDailyReport, poll, prevPoll,
                   nOps, nAdv, lastFetchAt>>
    /\ UNCHANGED schedOthers

\* checkAirQuality() of the tick, kv worker
KvTickPoll ==
    /\ variant = "kv"
    /\ tick.poll = "running"
    /\ \E results \in SensorResults(SchedPMs, {0}) :
       \E storeOk \in Outcomes(results.ok) :
       \E notifyOk \in Outcomes(results.ok /\ storeOk) :
        LET out == checkAirQuality(results, kvPreviousReadings, storeOk,
                                   notifyOk)
        IN  /\ kvLastReadings' = IF out.stored
                                    THEN kvStoreReadings(results, "interval")
                                    ELSE kvLastReadings
            /\ sensorTs' = SeenTs(results)
            /\ tick' = [tick EXCEPT !.poll = Settled(~out.err)]
    /\ lastOp' = "checkAirQuality"
    /\ report' = "none"
    /\ opFetched' = TRUE
    /\ served' = NoServed
    /\ UNCHANGED <<variant, now, justStarted, last10mReading,
                   kvLastAdhocRefresh, kvLastDailyReport, db, poll, prevPoll, nOps,
                   nAdv,
                   lastSentAt, lastFetchAt>>
    /\ UNCHANGED schedOthers

\* checkAirQuality(env) of the tick, d1 worker
D1TickPoll ==
    /\ variant = "d1"
    /\ tick.poll = "running"
    /\ \E results \in SensorResults(SchedPMs, {0}) :
       \E dbOk \in Outcomes(results.ok) :
       \E storeOk \in Outcomes(results.ok /\ dbOk) :
       \E notifyOk \in Outcomes(results.ok /\ dbOk /\ storeOk) :
        LET out == checkAirQuality(
                       results, d1PreviousReadings("interval", ONE_HOUR, dbOk),
                       storeOk, notifyOk)
        IN  /\ db' = IF out.stored THEN d1StoreReadings(results, "interval")
                     ELSE db
            /\ sensorTs' = SeenTs(results)
            /\ tick' = [tick EXCEPT !.poll = Settled(~out.err)]
    /\ lastOp' = "checkAirQuality"
    /\ report' = "none"
    /\ opFetched' = TRUE
    /\ served' = NoServed
    /\ UNCHANGED <<variant, now, justStarted, last10mReading, kvLastReadings,
                   kvLastAdhocRefresh, kvLastDailyReport, poll, prevPoll, nOps,
                   nAdv,
                   lastSentAt, lastFetchAt>>
    /\ UNCHANGED schedOthers

\* removeOldReadings(env).catch(...) of the tick: a rejection is logged and
\* the task resolves. No row here is four weeks old, so the DELETE commutes
\* with the other tasks and is taken after them.
D1TickExpire ==
    /\ variant = "d1"
    /\ tick.expire = "running"
    /\ "running" \notin {tick.daily, tick.poll}
    /\ \E ok \in BOOLEAN :
        /\ db' = IF ok THEN removeOldReadings(db, now).table ELSE db
        /\ tick' = [tick EXCEPT !.expire = IF ok THEN "resolved" ELSE "logged"]
    /\ lastOp' = "removeOldReadings"
    /\ report' = "none"
    /\ opFetched' = FALSE
    /\ served' = NoServed
    /\ UNCHANGED <<variant, now, justStarted, last10mReading, kvLastReadings,
                   kvLastAdhocRefresh, kvLastDailyReport, sensorTs, poll,
                   prevPoll, nOps, nAdv, lastSentAt, lastFetchAt>>
    /\ UNCHANGED schedOthers

\* a task that has not settled when the invocation ends is never resumed
Cut(task) == IF task = "running" THEN "cut" ELSE task

\* The promise handed to waitUntil settles, when every task has resolved or
\* as soon as one has rejected, and the invocation ends with it.
EndOfTick ==
    /\ tick.active
    /\ \/ "running" \notin {tick.daily, tick.poll, tick.expire}
       \/ "rejected" \in {tick.daily, tick.poll, tick.expire}
    /\ tick' = [active |-> FALSE, daily |-> Cut(tick.daily),
                poll |-> Cut(tick.poll), expire |-> Cut(tick.expire)]
    /\ lastOp' = "endOfTick"
    /\ report' = "none"
    /\ opFetched' = FALSE
    /\ served' = NoServed
    /\ UNCHANGED <<variant, now, justStarted, last10mReading, kvLastReadings,
                   kvLastAdhocRefresh, kvLastDailyReport, db, sensorTs, poll,
                   prevPoll, nOps, nAdv, lastSentAt, lastFetchAt>>
    /\ UNCHANGED schedOthers

\* what a report request got: the reading of a sensor read made for it, the
\* reading kept from before, or an error
Served(r) ==
    [st |-> IF ~r.ok THEN "error"
            ELSE IF r.fetched THEN "fresh"
            ELSE "cached",
     afterRefresh |-> lastOp = "refresh"]

\* GET PRIVATE_REPORT_URL, kv worker
KvGetReport ==
    /\ variant = "kv"
    /\ ~tick.active
    /\ nOps < MaxSchedOps
    /\ \E results \in SensorResults(SchedPMs, SensorAges) :
       \E storeOk \in Outcomes(results.ok) :
        LET r == kvGetAdhocReportReadings(results, storeOk, "adhoc")
        IN  /\ kvLastReadings' = r.last_readings
            /\ kvLastAdhocRefresh' = r.refresh
            /\ sensorTs' = IF r.fetched THEN SeenTs(results) ELSE sensorTs
            /\ served' = Served(r)
            /\ opFetched' = r.fetched
            /\ lastFetchAt' = IF r.ok /\ r.fetched THEN now ELSE lastFetchAt
    /\ lastOp' = "adhocReport"
    /\ report' = "none"
    /\ tick' = NoTick
    /\ nOps' = nOps + 1
    /\ UNCHANGED <<variant, now, justStarted, last10mReading,
                   kvLastDailyReport, db, poll, prevPoll, nAdv,
                   lastSentAt>>
    /\ UNCHANGED schedOthers

\* GET /, d1 worker
D1GetReport ==
    /\ variant = "d1"
    /\ ~tick.active
    /\ nOps < MaxSchedOps
    /\ \E results \in SensorResults(SchedPMs, SensorAges), dbOk \in BOOLEAN :
       \E storeOk \in Outcomes(results.ok /\ dbOk) :
        LET r == d1GetAdhocReportReadings("adhoc", results, dbOk, storeOk)
        IN  /\ db' = r.db
            /\ sensorTs' = IF r.fetched THEN SeenTs(results) ELSE sensorTs
            /\ served' = Served(r)
            /\ opFetched' = r.fetched
            /\ lastFetchAt' = IF r.ok /\ r.fetched THEN now ELSE lastFetchAt
    /\ lastOp' = "adhocReport"
    /\ report' = "none"
    /\ tick' = NoTick
    /\ nOps' = nOps + 1
    /\ UNCHANGED <<variant, now, justStarted, last10mReading, kvLastReadings,
                   kvLastAdhocRefresh, kvLastDailyReport, poll, prevPoll,
                   nAdv, lastSentAt>>
    /\ UNCHANGED schedOthers

\* POST PRIVATE_REPORT_URL/refresh, kv worker: 302 to PRIVATE_REPORT_URL,
\* which the client then requests
KvRefresh ==
    /\ variant = "kv"
    /\ ~tick.active
    /\ nOps < MaxSchedOps
    /\ lastOp # "refresh"
    /\ lastOp' = "refresh"
    /\ report' = "none"
    /\ tick' = NoTick
    /\ opFetched' = FALSE
    /\ served' = NoServed
    /\ UNCHANGED <<variant, now, justStarted, last10mReading, kvLastReadings,
                   kvLastAdhocRefresh, kvLastDailyReport, db, sensorTs, poll,
                   prevPoll, nOps, nAdv, lastSentAt, lastFetchAt>>
    /\ UNCHANGED schedOthers

\* time passes between invocations
Elapse ==
    /\ variant \in {"kv", "d1"}
    /\ ~tick.active
    /\ nAdv < MaxElapse
    /\ \E d \in ElapseSteps : now' = now + d
    /\ nAdv' = nAdv + 1
    /\ lastOp' = "advance"
    /\ report' = "none"
    /\ tick' = NoTick
    /\ opFetched' = FALSE
    /\ served' = NoServed
    /\ UNCHANGED <<variant, justStarted, last10mReading, kvLastReadings,
                   kvLastAdhocRefresh, kvLastDailyReport, db, sensorTs, poll,
                   prevPoll, nOps, lastSentAt, lastFetchAt>>
    /\ UNCHANGED schedOthers

SchedInit ==
    /\ variant \in {"kv", "d1"}
    /\ now \in SchedStarts
    /\ justStarted = TRUE
    /\ last10mReading = 0
    /\ kvLastReadings = <<>>
    /\ kvLastAdhocRefresh = 0
    /\ kvLastDailyReport = 0
    /\ db = <<>>
    /\ sensorTs = 0
    /\ poll = NoPoll
    /\ prevPoll = Summary(NoPoll)
    /\ lastOp = "init"
    /\ report = "none"
    /\ nOps = 0
    /\ nAdv = 0
    /\ ReaderIdle
    /\ NotifierIdle
    /\ StartIdle
    /\ AqiIdle
    /\ StoreIdle
    /\ CronIdle
    /\ SchedIdle
    /\ DaemonIdle
    /\ WebhookIdle

SchedNext ==
    \/ Scheduled
    \/ KvTickDaily
    \/ D1TickDaily
    \/ KvTickPoll
    \/ D1TickPoll
    \/ D1TickExpire
    \/ EndOfTick
    \/ KvGetReport
    \/ D1GetReport
    \/ KvRefresh
    \/ Elapse

SchedSpec == SchedInit /\ [][SchedNext]_vars

----------------------------------------------------------------------------
(* A run of the daemon: the first poll of _main, then the cron's polls *)

MaxRunPolls == 5        \* calls of checkAirQuality in one run

\* deadManSnitch: a request goes out when DEADMAN_SNITCH is set
deadManSnitch(snitch) == snitch

\* the function given to the cron, run with the snitch started whatever
\* checkAirQuality returned
cronJob_alwaysSnitch(err, snitch) == deadManSnitch(snitch)

\* the function given to the cron, after its call of checkAirQuality
\* returned: an error is logged, otherwise deadManSnitch is started;
\* whether a ping goes out
cronJob(err, snitch) == IF err THEN FALSE ELSE deadManSnitch(snitch)

\* _ = checkAirQuality(ctx, cfg, s, rc, n) before the cron is started
DaemonFirstPoll ==
    /\ variant = "go"
    /\ dmPolls = 0
    /\ \E r \in GoSensorResults : \E notifyOk \in Outcomes(r.ok) :
        LET res == goCheckAirQuality(
                       [justStarted |-> justStarted,
                        last10mReading |-> last10mReading], r, notifyOk)
        IN  /\ justStarted' = res.s.justStarted
            /\ last10mReading' = res.s.last10mReading
            /\ poll' = res.out
            /\ dmDispatched' = IF res.out.notified THEN res.out.event
                               ELSE dmDispatched
            /\ dmNaNSince' = IF res.out.notified THEN FALSE
                             ELSE dmNaNSince \/ (r.ok /\ r.tenmavg = NaN)
    /\ dmPinged' = FALSE
    /\ dmPolls' = 1
    /\ prevPoll' = Summary(poll)
    /\ lastOp' = "checkAirQuality"
    /\ report' = "none"
    /\ UNCHANGED <<variant, now, kvLastReadings, kvLastAdhocRefresh,
                   kvLastDailyReport, db, sensorTs, nOps, nAdv, dmSnitch>>
    /\ UNCHANGED daemonOthers

\* the cron fires: checkAirQuality, then the snitch
DaemonCronPoll ==
    /\ variant = "go"
    /\ dmPolls >= 1
    /\ dmPolls < MaxRunPolls
    /\ \E r \in GoSensorResults : \E notifyOk \in Outcomes(r.ok) :
        LET res == goCheckAirQuality(
                       [justStarted |-> justStarted,
                        last10mReading |-> last10mReading], r, notifyOk)
        IN  /\ justStarted' = res.s.justStarted
            /\ last10mReading' = res.s.last10mReading
            /\ poll' = res.out
            /\ dmDispatched' = IF res.out.notified THEN res.out.event
                               ELSE dmDispatched
            /\ dmNaNSince' = IF res.out.notified THEN FALSE
                             ELSE dmNaNSince \/ (r.ok /\ r.tenmavg = NaN)
            /\ dmPinged' = cronJob(res.out.err, dmSnitch)
    /\ dmPolls' = dmPolls + 1
    /\ prevPoll' = Summary(poll)
    /\ lastOp' = "checkAirQuality"
    /\ report' = "none"
    /\ UNCHANGED <<variant, now, kvLastReadings, kvLastAdhocRefresh,
                   kvLastDailyReport, db, sensorTs, nOps, nAdv, dmSnitch>>
    /\ UNCHANGED daemonOthers

DaemonInit ==
    /\ variant = "go"
    /\ now = StartOfRun
    /\ justStarted = TRUE
    /\ last10mReading = 0
    /\ kvLastReadings = <<>>
    /\ kvLastAdhocRefresh = 0
    /\ kvLastDailyReport = 0
    /\ db = <<>>
    /\ sensorTs = 0
    /\ poll = NoPoll
    /\ prevPoll = Summary(NoPoll)
    /\ lastOp = "init"
    /\ report = "none"
    /\ nOps = 0
    /\ nAdv = 0
    /\ ReaderIdle
    /\ NotifierIdle
    /\ StartIdle
    /\ AqiIdle
    /\ StoreIdle
    /\ CronIdle
    /\ SchedIdle
    /\ WebhookIdle
    /\ dmSnitch \in BOOLEAN
    /\ dmPolls = 0
    /\ dmDispatched = "none"
    /\ dmNaNSince = FALSE
    /\ dmPinged = FALSE

DaemonNext == DaemonFirstPoll \/ DaemonCronPoll

DaemonSpec == DaemonInit /\ [][DaemonNext]_vars

----------------------------------------------------------------------------
(* The incoming-message webhook *)

\* A parameter of the query string or of the form body is <<>> when it is
\* absent (get returns null) and <<v>> when it is there with value v. A
\* text is a sequence of pieces, each a run of whitespace or a word.

TWILIO_WH_PSK == "k1"
SMS_RECIPIENTS == <<"+15550001", "+15550002">>

Whitespace == {" ", "\n"}

\* String.prototype.toLowerCase, piece by piece
toLowerCase(text) ==
    [i \in 1..Len(text) |->
        IF text[i] \in {"REPORT", "Report", "report"} THEN "report"
        ELSE IF text[i] \in {"STATUS", "status"} THEN "status"
        ELSE text[i]]

\* String.prototype.trim: the whitespace at both ends goes
RECURSIVE trimStart(_)
trimStart(text) ==
    IF text # <<>> /\ text[1] \in Whitespace THEN trimStart(Tail(text))
    ELSE text

RECURSIVE trimEnd(_)
trimEnd(text) ==
    IF text # <<>> /\ text[Len(text)] \in Whitespace
        THEN trimEnd(SubSeq(text, 1, Len(text) - 1))
    ELSE text

trim(text) == trimEnd(trimStart(text))

\* the requests: method, path, psk of the query string, From and Body of
\* the form
Requests ==
    [method : {"POST", "GET"},
     pathname : {"/incoming-message", "/"},
     psk : {<<>>, <<"k1">>, <<"k2">>},
     from : {<<>>, <<"">>, <<"+15550001">>, <<"+15550002">>, <<"+15559999">>},
     body : {<<>>, << <<>> >>, << <<" ">> >>, << <<"report">> >>,
             << <<" ", "REPORT", "\n">> >>, << <<"Report">> >>,
             << <<"status">> >>, << <<"report", " ", "now">> >>}]

\* what the webhook does with a request: its answer and whether it read
\* the sensor
Answer(response, read) == [response |-> response, read |-> read]

\* generateReport: the report, or the rejection of getSensorData, which
\* processRequest catches and answers with an error
generateReport(readOk) ==
    IF readOk THEN Answer("report", TRUE) ELSE Answer("error", TRUE)

\* incomingMessage without the test of From against SMS_RECIPIENTS
incomingMessage_anySender(req, readOk) ==
    IF req.psk = <<>> \/ req.psk[1] # TWILIO_WH_PSK
        THEN Answer("error", FALSE)
    ELSE IF req.from = <<>> \/ req.from[1] = ""
        THEN Answer("error", FALSE)
    ELSE IF req.body = <<>> \/ Len(trim(req.body[1])) = 0
        THEN Answer("noop", FALSE)
    ELSE IF trim(toLowerCase(req.body[1])) = <<"report">>
        THEN generateReport(readOk)
    ELSE Answer("error", FALSE)

\* incomingMessage(req, url)
incomingMessage(req, readOk) ==
    IF req.psk = <<>> \/ req.psk[1] # TWILIO_WH_PSK
        THEN Answer("error", FALSE)
    ELSE IF req.from = <<>> \/ req.from[1] = ""
        THEN Answer("error", FALSE)
    ELSE IF \A i \in 1..Len(SMS_RECIPIENTS) : SMS_RECIPIENTS[i] # req.from[1]
        THEN Answer("noop", FALSE)
    ELSE IF req.body = <<>> \/ Len(trim(req.body[1])) = 0
        THEN Answer("noop", FALSE)
    ELSE IF trim(toLowerCase(req.body[1])) = <<"report">>
        THEN generateReport(readOk)
    ELSE Answer("error", FALSE)

\* processRequest(req)
processRequest(req, readOk) ==
    IF req.method # "POST" THEN Answer("noop", FALSE)
    ELSE IF req.pathname = "/incoming-message"
        THEN incomingMessage(req, readOk)
    ELSE Answer("noop", FALSE)

\* the fetch event: the request is processed and answered
ProcessRequest ==
    /\ whResponse = "none"
    /\ \E readOk \in BOOLEAN :
        LET a == processRequest(whReq, readOk)
        IN  /\ a.read \/ readOk
            /\ whResponse' = a.response
            /\ whRead' = a.read
    /\ UNCHANGED whReq
    /\ UNCHANGED webhookOthers

WebhookInit ==
    /\ PipelineIdle
    /\ ReaderIdle
    /\ NotifierIdle
    /\ StartIdle
    /\ AqiIdle
    /\ StoreIdle
    /\ CronIdle
    /\ SchedIdle
    /\ DaemonIdle
    /\ whReq \in Requests
    /\ whRead = FALSE
    /\ whResponse = "none"

WebhookNext == ProcessRequest

WebhookSpec == WebhookInit /\ [][WebhookNext]_vars

----------------------------------------------------------------------------
(* Properties *)

Threshold == Tenths(AQ_THRESHOLD)

IsNumber(x) == x # NaN /\ x # JNull

\* the state is the one a checkAirQuality has just left
AfterPoll == lastOp = "checkAirQuality"

\* the reading of the last poll is what the store now holds as the
\* interval baseline
BaselineIsCurrent ==
    CASE variant = "go" ->
            ~justStarted /\ last10mReading = poll.cur
      [] variant = "kv" ->
            /\ kvLastReadings # <<>>
            /\ kvLastReadings[1].kind = "interval"
            /\ kvLastReadings[1].orig = poll.cur
            /\ kvLastReadings[1].exp = now + KV_TTL
      [] variant = "d1" ->
            /\ db # <<>>
            /\ db[Len(db)].kind = "interval"
            /\ db[Len(db)].orig = poll.cur

\* C1: a poll that read the sensor and found no previous baseline (the
\* first poll of the daemon, previousReadings returning null in a worker)
\* emits no event and calls no notifier, and, unless the write itself
\* rejected, leaves the current reading as the new baseline.
C1_NoBaselineNoNotification ==
    (poll.sensorOk /\ ~poll.readErr /\ ~poll.hadPrev)
        => /\ poll.event = "none"
           /\ ~poll.notified
           /\ ~poll.compared
           /\ (AfterPoll /\ ~poll.writeErr) => BaselineIsCurrent

\* C1 witness: the daemon's first poll read AQI 70, above the threshold and
\* above the zero value of last10mReading, notified nobody and kept 70
C1_Witness ==
    /\ variant = "go"
    /\ AfterPoll
    /\ poll.sensorOk /\ ~poll.hadPrev
    /\ poll.cur = 700
    /\ ~poll.notified
    /\ ~justStarted /\ last10mReading = 700

\* C2: with numeric previous p and current c, the event is air_quality_good
\* exactly when p > 65 and c <= 65, air_quality_bad exactly when p <= 65 and
\* c > 65, and none otherwise; the notifier is called exactly when there is
\* an event.
C2_TransitionFunction ==
    (poll.compared /\ IsNumber(poll.prev) /\ IsNumber(poll.cur))
        => /\ poll.event = "air_quality_good"
                <=> (poll.prev > Threshold /\ poll.cur <= Threshold)
           /\ poll.event = "air_quality_bad"
                <=> (poll.prev <= Threshold /\ poll.cur > Threshold)
           /\ poll.event \in {"none", "air_quality_good", "air_quality_bad"}
           /\ poll.notified <=> poll.event # "none"

\* C2 witness: previous 70, current 60, event air_quality_good
C2_Witness ==
    /\ poll.compared
    /\ poll.prev = 700 /\ poll.cur = 600
    /\ poll.event = "air_quality_good"
    /\ poll.notified

\* C3: after every poll whose sensor read succeeded and whose store
\* accepted the lookup and the write, the current reading is the stored
\* baseline, whether the event was none, or a notification was sent, or
\* its dispatch failed.
C3_BaselineAlwaysStored ==
    (AfterPoll /\ poll.sensorOk /\ ~poll.readErr /\ ~poll.writeErr)
        => poll.stored /\ BaselineIsCurrent

\* C3 witness: a worker's poll crossed the threshold, its notification
\* failed, the poll rejected, and the reading is the baseline all the same
C3_Witness ==
    /\ variant = "d1"
    /\ AfterPoll
    /\ poll.notified /\ ~poll.notifyOk /\ poll.err
    /\ BaselineIsCurrent

\* C4: (daemon and d1 worker) when the notification of a poll failed, the
\* next poll whose reading lies on the same side of the threshold as the
\* failed poll's reading calls no notifier.
C4_NoRetryAfterFailedNotify ==
    (variant \in {"go", "d1"} /\ poll.sensorOk /\ IsNumber(poll.cur))
        => /\ (prevPoll.failedEvent = "air_quality_bad"
                    /\ poll.cur > Threshold) => ~poll.notified
           /\ (prevPoll.failedEvent = "air_quality_good"
                    /\ poll.cur <= Threshold) => ~poll.notified

\* C4 witness: air_quality_bad failed to go out, the next poll is still
\* above the threshold, compares against the advanced baseline and stays
\* silent
C4_Witness ==
    /\ variant = "d1"
    /\ prevPoll.failedEvent = "air_quality_bad"
    /\ poll.compared
    /\ poll.prev > Threshold /\ poll.cur > Threshold
    /\ ~poll.notified

\* C5: when the previous or the current 10-minute AQI is NaN, the poll
\* emits no event and calls no notifier, in every deployment.
C5_NaNNeverCrosses ==
    (poll.sensorOk /\ (poll.cur = NaN \/ (poll.hadPrev /\ poll.prevOrig = NaN)))
        => poll.event = "none" /\ ~poll.notified

\* C6: the baseline a poll compares against was stored by an interval
\* poll, never by the adhoc or the daily report path.
C6_BaselineFromIntervalPoll ==
    poll.hadPrev => poll.prevKind = "interval"

\* C7: of two consecutive successful polls at most an hour apart whose AQIs
\* lie on opposite sides of the threshold, the second calls the notifier,
\* whatever report ran in between.
C7_CrossingBetweenPollsNotified ==
    [][(/\ lastOp' = "checkAirQuality"
        /\ poll.sensorOk /\ ~poll.readErr /\ ~poll.writeErr
        /\ poll'.sensorOk /\ ~poll'.readErr /\ ~poll'.writeErr
        /\ IsNumber(poll.cur) /\ IsNumber(poll'.cur)
        /\ poll'.at - poll.at <= ONE_HOUR
        /\ (poll.cur > Threshold) # (poll'.cur > Threshold))
            => poll'.notified]_vars

\* C8 as stated: a poll that compares 65 with an adjacent value, 64 or 66,
\* in either order, emits no event.
C8_NoEventAroundThreshold ==
    (/\ poll.compared
     /\ \/ poll.prev = 650 /\ poll.cur \in {640, 660}
        \/ poll.cur = 650 /\ poll.prev \in {640, 660})
        => poll.event = "none"

\* C8 amended: readings alternating between 65 and a value at or below it
\* (64) emit no event; between 65 and 66 every poll is a crossing: 65 to 66
\* emits air_quality_bad and 66 to 65 emits air_quality_good.
C8_NoEventAtOrBelowThreshold ==
    poll.compared
        => /\ (poll.prev \in {640, 650} /\ poll.cur \in {640, 650})
                => poll.event = "none"
           /\ (poll.prev = 650 /\ poll.cur = 660)
                => poll.event = "air_quality_bad"
           /\ (poll.prev = 660 /\ poll.cur = 650)
                => poll.event = "air_quality_good"

\* C8 witness: previous exactly 65, current 64, no event
C8_Witness ==
    /\ poll.compared
    /\ poll.prev = 650 /\ poll.cur = 640
    /\ poll.event = "none" /\ ~poll.notified

\* C9: a poll whose sensor read fails changes neither the baseline nor
\* justStarted, calls no notifier and returns the error.
C9_SensorFailureKeepsBaseline ==
    [][(lastOp' = "checkAirQuality" /\ ~poll'.sensorOk)
            => /\ UNCHANGED <<justStarted, last10mReading, kvLastReadings,
                              db>>
               /\ ~poll'.notified /\ ~poll'.stored /\ poll'.err]_vars

\* C9 witness: the daemon holds baseline 70 from an earlier poll and the
\* poll that just ran failed to read the sensor
C9_Witness ==
    /\ variant = "go"
    /\ AfterPoll
    /\ ~poll.sensorOk /\ poll.err
    /\ ~justStarted /\ last10mReading = 700

\* C10: when the write of the current reading rejects, the poll rejects
\* before the comparison: no event, no notifier call.
C10_StoreFailureStopsPoll ==
    poll.writeErr
        => /\ poll.err
           /\ ~poll.compared
           /\ poll.event = "none"
           /\ ~poll.notified
           /\ ~poll.stored

\* C10 witness: the d1 worker found baseline 64, read 66, and the insert
\* rejected: a crossing that is not announced
C10_Witness ==
    /\ variant = "d1"
    /\ AfterPoll
    /\ poll.writeErr
    /\ poll.hadPrev /\ poll.prev = 640 /\ poll.cur = 660
    /\ ~poll.notified

----------------------------------------------------------------------------
(* Properties of the sensor reader *)

\* the daemon's read has returned
GoReadDone == rdImpl = "go" /\ rdResult.st # "pending"

\* a backup sensor is configured and is not the primary itself
HasBackup == rdCfg.backupSensorID \notin {"", rdCfg.purpleAirSensorID}

\* a response every sub-sensor of which is fresh and decodes
Usable(resp) ==
    /\ resp.kind = "results"
    /\ Len(resp.results) > 0
    /\ \A i \in 1..Len(resp.results) :
            /\ resp.results[i].age <= STALE_AFTER
            /\ resp.results[i].stats # BadStats

\* a response with a sub-sensor last seen more than ten minutes ago
HasStale(resp) ==
    /\ resp.kind = "results"
    /\ \E i \in 1..Len(resp.results) : resp.results[i].age > STALE_AFTER

\* a response with zero results
ZeroResults(resp) == resp.kind = "results" /\ Len(resp.results) = 0

\* the read consulted the backup after the primary and returned what the
\* backup's response holds
ReturnsBackup ==
    /\ rdFetched = <<rdCfg.purpleAirSensorID, rdCfg.backupSensorID>>
    /\ Usable(rdApi[rdCfg.backupSensorID])
        => LET results == rdApi[rdCfg.backupSensorID].results
           IN  rdResult = ReadOk(aqiFromPM(avg(rtPM25Readings(results))),
                                 aqiFromPM(avg(tenmPM25Readings(results))))

\* C11: with a backup configured and different from the primary, a primary
\* response with zero results makes the reader fetch the backup, and a
\* usable backup's reading is returned without error.
C11_ZeroResultsFailOver ==
    (GoReadDone /\ HasBackup /\ ZeroResults(rdApi[rdCfg.purpleAirSensorID]))
        => ReturnsBackup

\* C11 witness: primary answered zero results, backup one fresh sub-sensor
\* with 21.0 and 19.2, the read returned AQI 70 and 66
C11_Witness ==
    /\ GoReadDone
    /\ ZeroResults(rdApi["A"])
    /\ rdFetched = <<"A", "B">>
    /\ rdResult = ReadOk(700, 660)

\* C12: with a backup configured, a primary response in which any one
\* sub-sensor was last seen more than ten minutes ago makes the reader
\* fetch the backup and return the backup's result.
C12_AnyStaleSubSensorFailsOver ==
    (GoReadDone /\ HasBackup /\ HasStale(rdApi[rdCfg.purpleAirSensorID]))
        => ReturnsBackup

\* C13: when the primary is stale or has zero results, and there is no
\* other sensor or the backup is stale or has zero results too, the read
\* returns an error and no reading.
C13_AllUnusableIsError ==
    (/\ GoReadDone
     /\ \/ ZeroResults(rdApi[rdCfg.purpleAirSensorID])
        \/ HasStale(rdApi[rdCfg.purpleAirSensorID])
     /\ HasBackup
            => \/ ZeroResults(rdApi[rdCfg.backupSensorID])
               \/ HasStale(rdApi[rdCfg.backupSensorID]))
        => rdResult = ReadErr

\* C13 witness: primary and backup are both stale, both were asked, error
C13_Witness ==
    /\ GoReadDone
    /\ HasBackup
    /\ HasStale(rdApi["A"]) /\ HasStale(rdApi["B"])
    /\ rdFetched = <<"A", "B">>
    /\ rdResult = ReadErr

\* the first thing wrong with a response is that it does not decode: the
\* body, or the Stats of a sub-sensor before any stale one
Malformed(resp) ==
    \/ resp.kind = "badjson"
    \/ /\ resp.kind = "results"
       /\ \E i \in 1..Len(resp.results) :
            /\ resp.results[i].stats = BadStats
            /\ \A j \in 1..i : resp.results[j].age <= STALE_AFTER

\* C14: with a backup configured, a primary payload that does not decode
\* (the body, or one sub-sensor's Stats) makes the reader go on to the
\* backup instead of failing the read.
C14_MalformedPayloadFailsOver ==
    (GoReadDone /\ HasBackup /\ Malformed(rdApi[rdCfg.purpleAirSensorID]))
        => ReturnsBackup

\* C15: a status other than success for the primary sensor fails the read
\* at once: the backup is not asked and no reading is returned.
C15_StatusFailureIsImmediate ==
    (rdResult.st # "pending" /\ rdApi[rdCfg.purpleAirSensorID].kind = "status")
        => /\ rdResult = ReadErr
           /\ rdFetched = <<rdCfg.purpleAirSensorID>>

\* C15 witness: the daemon has a usable backup, the primary answered with a
\* bad status, the read failed after the one request
C15_Witness ==
    /\ GoReadDone
    /\ HasBackup /\ Usable(rdApi["B"])
    /\ rdApi["A"].kind = "status"
    /\ rdFetched = <<"A">>
    /\ rdResult = ReadErr

----------------------------------------------------------------------------
(* Properties of the notifier *)

NotifyDone == ntResult # "pending"

IsSms == ntChannel \in {"sms_go", "sms_ts"}

KnownEvent == ntEvent \in {"air_quality_good", "air_quality_bad"}

\* C16: when the service answered a send with a status that is not a
\* success, notify reports failure, on every channel.
C16_BadStatusIsDeliveryFailure ==
    (NotifyDone /\ \E i \in 1..ntSent : ntApi[i] >= 300)
        => ntResult = "error"

\* C17 as stated: on the SMS channel, notify with a known event succeeds
\* exactly when every recipient's send was answered 201 Created.
C17_SmsSuccessIffAll201 ==
    (NotifyDone /\ IsSms /\ KnownEvent)
        => (ntResult = "ok" <=> \A i \in 1..Len(ntApi) : ntApi[i] = 201)

\* C17 amended: on the SMS channel, notify with a known event succeeds
\* exactly when every recipient's send was accepted, which is 201 Created
\* for the daemon and any 2xx status for the worker; one recipient's
\* failure makes the call fail.
C17_SmsSuccessIffAllAccepted ==
    (NotifyDone /\ IsSms /\ KnownEvent)
        => /\ ntChannel = "sms_go"
                => (ntResult = "ok"
                        <=> \A i \in 1..Len(ntApi) : ntApi[i] = 201)
           /\ ntChannel = "sms_ts"
                => (ntResult = "ok"
                        <=> \A i \in 1..Len(ntApi) :
                                ntApi[i] >= 200 /\ ntApi[i] < 300)
           /\ (\E i \in 1..Len(ntApi) : ntApi[i] \in {NoAnswer, 400})
                => ntResult = "error"

\* C17 witness: the worker's second of two recipients was refused and the
\* call failed
C17_Witness ==
    /\ ntChannel = "sms_ts"
    /\ ntApi = <<201, 400>>
    /\ ntSent = 2
    /\ ntResult = "error"

\* C18: on the SMS channel, notify with a known event sends to every
\* configured recipient, also after a send has failed.
C18_SmsBatchNotAborted ==
    (NotifyDone /\ IsSms /\ KnownEvent) => ntSent = Len(ntApi)

----------------------------------------------------------------------------
(* Properties of the start of the daemon *)

\* the webhook key is set, or all four SMS fields are
ChannelConfigured ==
    \/ stCfg.iftttWHKey
    \/ /\ stCfg.twilioSid
       /\ stCfg.twilioKey
       /\ stCfg.twilioFrom
       /\ stCfg.smsRecipients

\* C19: when neither the webhook key nor all four SMS fields are set, the
\* daemon builds no notifier, _main returns an error (the notifier's, when
\* a sensor ID is configured), and no poll and no network request is ever
\* made.
C19_NoChannelNoStart ==
    ~ChannelConfigured
        => /\ stPc \in {"start", "exited"}
           /\ stNotifier = "none"
           /\ stPolls = 0
           /\ stNetCalls = 0
           /\ stPc = "exited"
                => stErr = IF stCfg.purpleAirSensorID
                                THEN "failed to init notifier"
                                ELSE "empty purpleair sensor id"

\* C19 witness: three of the four SMS fields are set, the recipients are
\* not, and _main has returned the notifier's error
C19_Witness ==
    /\ stCfg.purpleAirSensorID
    /\ ~stCfg.iftttWHKey
    /\ stCfg.twilioSid /\ stCfg.twilioKey /\ stCfg.twilioFrom
    /\ ~stCfg.smsRecipients
    /\ stPc = "exited"
    /\ stErr = "failed to init notifier"
    /\ stPolls = 0 /\ stNetCalls = 0

----------------------------------------------------------------------------
(* Properties of the daily report *)

\* the 'last sent' marker sendDailyReport tests: the key
\* last_successful_daily_report, the ts of the latest daily reading
DailyMarker ==
    CASE variant = "kv" -> kvLastDailyReport
      [] variant = "d1" -> d1PreviousReadings("daily", 0, TRUE).ts
      [] OTHER -> 0

\* C20: a sendDailyReport whose delivery failed leaves the 'last sent'
\* marker as it was, and a sendDailyReport that follows it attempts the
\* report again.
C20_MarkerOnlyAfterDelivery ==
    [][/\ (lastOp' = "sendDailyReport" /\ report' = "failed")
            => DailyMarker' = DailyMarker
       /\ (report = "failed" /\ lastOp' = "sendDailyReport")
            => report' # "skipped"]_vars

----------------------------------------------------------------------------
(* Properties of the AQI converter *)

Converted == aqOut # <<>>

\* C29: aqiFromPM(12.0) = 50, aqiFromPM(12.1) = 51, aqiFromPM(35.4) = 100
\* and aqiFromPM(500.0) = 500.
C29_BreakpointsExact ==
    Converted
        => /\ aqIn[1] = 120 => aqOut[1] = 500
           /\ aqIn[1] = 121 => aqOut[1] = 510
           /\ aqIn[1] = 354 => aqOut[1] = 1000
           /\ aqIn[1] = 5000 => aqOut[1] = 5000

\* C30: for concentrations a <= b between 0 and 500.5, aqiFromPM(a) and
\* aqiFromPM(b) are numbers and aqiFromPM(a) <= aqiFromPM(b).
C30_Monotone ==
    (Converted /\ aqIn \in PMPairs)
        => /\ IsNumber(aqOut[1]) /\ IsNumber(aqOut[2])
           /\ aqOut[1] <= aqOut[2]

\* C30 witness: 35.5 and 35.6 lie in different bands and convert to 100
\* and 101
C30_Witness ==
    /\ aqIn = <<355, 356>>
    /\ aqOut = <<1000, 1010>>

\* C31: aqiFromPM returns NaN for NaN, the input itself for every input
\* below 0, and NaN for every input above 1000.
C31_OutOfRange ==
    Converted
        => /\ aqIn[1] = NaN => aqOut[1] = NaN
           /\ (aqIn[1] # NaN /\ aqIn[1] < 0) => aqOut[1] = aqIn[1]
           /\ aqIn[1] > 10000 => aqOut[1] = NaN

\* C31 witness: 1000.1 has been converted, to NaN
C31_Witness ==
    /\ aqIn[1] = 10001
    /\ aqOut = <<NaN, NaN>>

----------------------------------------------------------------------------
(* Properties of the reading store *)

\* row i of the table is of the kind asked for and within the age asked for
Qualifies(i) ==
    /\ tbl[i].kind = qAsked[1]
    /\ qAsked[2] = 0 \/ now - tbl[i].ts <= qAsked[2]

\* C28: a previousReadings(kind, maxAge) that resolves returns null exactly
\* when no row of the kind has a ts within maxAge of now, and otherwise
\* the qualifying row that was inserted last, whatever the ts of the
\* qualifying rows inserted before it.
C28_LatestInsertWins ==
    (qAsked # <<>> /\ qAnswer.st # "error")
        => /\ qAnswer.st = "null" <=> ~\E i \in 1..Len(tbl) : Qualifies(i)
           /\ qAnswer.st = "row"
                => \E i \in 1..Len(tbl) :
                    /\ Qualifies(i)
                    /\ \A j \in (i + 1)..Len(tbl) : ~Qualifies(j)
                    /\ qAnswer.ts = tbl[i].ts
                    /\ qAnswer.kind = tbl[i].kind
                    /\ qAnswer.tenMinuteAvg = tbl[i].ten_minute_avg

\* C28 witness: two interval rows within the hour, the one inserted last
\* with the older ts, and the one inserted last is returned
C28_Witness ==
    /\ Len(tbl) = 2
    /\ tbl[1].kind = "interval" /\ tbl[1].ts = now - 60
    /\ tbl[2].kind = "interval" /\ tbl[2].ts = now - 3600
    /\ qAsked = <<"interval", ONE_HOUR>>
    /\ qAnswer.st = "row" /\ qAnswer.ts = now - 3600

----------------------------------------------------------------------------
(* Properties of the daemon's cron *)

\* C27: at most one call of checkAirQuality is under way at any time.
C27_OnePollAtATime == Cardinality(crInFlight) <= 1

----------------------------------------------------------------------------
(* Properties of the workers' scheduled handler and report requests *)

\* this step is a sendDailyReport that delivered a report
DailySent == lastOp' = "sendDailyReport" /\ report' = "delivered"

\* C21: of two daily reports delivered one after the other, the second is
\* delivered at least 23 hours after the first.
C21_ReportsAtLeast23hApart ==
    [][(DailySent /\ lastSentAt # 0)
            => now' - lastSentAt >= DAILY_PERIOD]_vars

\* this step is a sendDailyReport at or past the cutoff hour that read the
\* 'last sent' marker
DailyTested ==
    /\ lastOp' = "sendDailyReport"
    /\ Hour(now') >= DAILY_CUTOFF_HOUR
    /\ ~(report' = "error" /\ ~opFetched')

\* C22 as stated: at or past the cutoff hour, sendDailyReport goes on to
\* the report exactly when now - lastSentTimestamp >= 82800, also when the
\* difference is exactly 82800.
C22_DueFrom23h ==
    [][DailyTested
            => (report' # "skipped" <=> now' - DailyMarker >= DAILY_PERIOD)]_vars

\* C22 amended: at or past the cutoff hour, sendDailyReport goes on to the
\* report exactly when now - lastSentTimestamp > 82800; when the difference
\* is exactly 82800 or smaller it sends none.
C22_DueAfter23h ==
    [][DailyTested
            => (report' # "skipped" <=> now' - DailyMarker > DAILY_PERIOD)]_vars

\* C22 witness: at 08:00, exactly 23 hours after the marker, sendDailyReport
\* has sent nothing
C22_Witness ==
    /\ lastOp = "sendDailyReport"
    /\ Hour(now) >= DAILY_CUTOFF_HOUR
    /\ DailyMarker # 0
    /\ now - DailyMarker = DAILY_PERIOD
    /\ report = "skipped"

\* C23: before the cutoff hour sendDailyReport sends no report, reads no
\* sensor and resolves, whatever the time since the last report.
C23_NothingBeforeCutoff ==
    (lastOp = "sendDailyReport" /\ Hour(now) < DAILY_CUTOFF_HOUR)
        => /\ report = "skipped"
           /\ ~opFetched
           /\ tick.daily = "resolved"

\* C23 witness: at 07:00, 46 hours after the last report, sendDailyReport
\* has sent nothing
C23_Witness ==
    /\ lastOp = "sendDailyReport"
    /\ Hour(now) < DAILY_CUTOFF_HOUR
    /\ DailyMarker # 0
    /\ now - DailyMarker > DAILY_PERIOD
    /\ report = "skipped"
    /\ ~opFetched

\* C24: a report request that comes at most 30 minutes after the last
\* on-demand sensor read makes no sensor read of its own and is served the
\* reading kept from before.
C24_RepeatWithin30MinIsCached ==
    [][(/\ lastOp' = "adhocReport"
        /\ lastFetchAt # 0
        /\ now' - lastFetchAt <= ADHOC_DEBOUNCE)
            => /\ ~opFetched'
               /\ served'.st \in {"cached", "error"}]_vars

\* C25: the report requested right after a refresh is served from a sensor
\* read made for it, not from the reading kept from before.
C25_RefreshForcesRead ==
    served.afterRefresh => opFetched /\ served.st \in {"fresh", "error"}

\* C26: when a scheduled invocation has ended, none of its tasks was left
\* unfinished, whichever of them failed, and the expiry of old readings has
\* not rejected.
C26_TasksIsolated ==
    (~tick.active /\ tick # NoTick)
        => /\ "cut" \notin {tick.daily, tick.poll, tick.expire}
           /\ tick.expire \in {"idle", "resolved", "logged"}

----------------------------------------------------------------------------
(* Properties of the sensor reader: averaging and the stale flag *)

\* the mean of the sequence of numbers n, as a pair <<numerator,
\* denominator>>
Mean(n) == <<total(n), Len(n)>>

\* x is the conversion of the concentration num / den, which is a whole
\* number of tenths
IsAqiOfMean(x, m) ==
    /\ m[1] % m[2] = 0
    /\ x = aqiFromPM(m[1] \div m[2])

\* C32: when the candidate fetched last (the primary, or the backup after a
\* failover) is usable, with one or more sub-sensors, the realtime
\* AQI returned is aqiFromPM of the mean of the sub-sensors' realtime
\* concentrations, and the 10-minute AQI returned is aqiFromPM of the mean
\* of their 10-minute concentrations.
C32_AverageThenConvert ==
    (GoReadDone /\ Usable(rdApi[rdFetched[Len(rdFetched)]]))
        => LET results == rdApi[rdFetched[Len(rdFetched)]].results
           IN  /\ rdResult.st = "ok"
               /\ IsAqiOfMean(rdResult.rt,
                              Mean([i \in 1..Len(results) |->
                                        results[i].stats.v]))
               /\ IsAqiOfMean(rdResult.tenmavg,
                              Mean([i \in 1..Len(results) |->
                                        results[i].stats.v1]))

\* C32 witness: two sub-sensors with 9.0 and 21.0 realtime, 16.8 and 19.2
\* over ten minutes; the read returned aqiFromPM(15.0) = 57 and
\* aqiFromPM(18.0) = 63, not the means 54 and 63.5 of the four indices
C32_Witness ==
    /\ GoReadDone
    /\ rdApi["A"].kind = "results"
    /\ Len(rdApi["A"].results) = 2
    /\ rdApi["A"].results[1].stats = Stats(90, 168)
    /\ rdApi["A"].results[2].stats = Stats(210, 192)
    /\ rdResult.st = "ok"
    /\ rdResult.rt = 570
    /\ rdResult.tenmavg = 630

\* a read of one of the single-sensor readers has returned
SingleReadDone == rdImpl \in {"ts", "legacy"} /\ rdResult.st # "pending"

\* the response carries the sensor's stats
HasStats(resp) ==
    /\ resp.kind = "results"
    /\ Len(resp.results) > 0
    /\ resp.results[1].stats # BadStats

\* C33: a single-sensor read whose sensor-reported timestamp is more than
\* ten minutes before now returns a reading with stale = true, one at most
\* ten minutes old a reading with stale = false, and the flag stored with
\* the reading and the staleness caveat follow that value.
C33_StaleIsFlagged ==
    (SingleReadDone /\ HasStats(rdApi[rdCfg.purpleAirSensorID]))
        => LET old == rdApi[rdCfg.purpleAirSensorID].results[1].age
                        > STALE_AFTER
           IN  /\ rdResult.st = "ok"
               /\ Truthy(rdResult.stale) <=> old
               /\ storedStale(rdResult) = IF old THEN 1 ELSE 0
               /\ staleCaveat(rdResult) <=> old
----------------------------------------------------------------------------
(* Properties of the expiry of readings *)

\* the rows of table with a ts less than four weeks before now
Recent(table) ==
    LET recent(row) == now - row.ts < FOUR_WEEKS
    IN  SelectSeq(table, recent)

\* C37: a removeOldReadings that deletes rows deletes none whose ts is
\* less than four weeks before now, and previousReadings(kind, maxAge one
\* hour) returns the same reading after it as before it, for every kind.
C37_ExpiryKeepsBaselines ==
    [][Len(tbl') < Len(tbl)
        => /\ Recent(tbl') = Recent(tbl)
           /\ \A kind \in Kinds :
                previousReadings(tbl', now', kind, ONE_HOUR, TRUE)
                    = previousReadings(tbl, now, kind, ONE_HOUR, TRUE)]_vars

\* C37 witness: removeOldReadings deleted a row exactly four weeks old and
\* the table still holds the interval row exactly an hour old, which the
\* lookup of the baseline returns
C37_Witness ==
    /\ expired # <<>>
    /\ \E i \in 1..Len(expired) : expired[i].ts = now - FOUR_WEEKS
    /\ previousReadings(tbl, now, "interval", ONE_HOUR, TRUE).st = "row"
    /\ previousReadings(tbl, now, "interval", ONE_HOUR, TRUE).ts = now - ONE_HOUR
----------------------------------------------------------------------------
(* Properties of a run of the daemon *)

\* this step is a poll that called notify
Dispatches == dmPolls' = dmPolls + 1 /\ poll'.notified

\* C34: the notifications dispatched in one run alternate in kind: a poll
\* never calls notify with the event the last call of notify was made
\* with.
C34_EventsAlternate ==
    [][(Dispatches /\ dmDispatched # "none")
        => poll'.event # dmDispatched]_vars

\* C34 as it holds: a poll never calls notify with the event the last call
\* of notify was made with, unless a poll between the two read NaN.
C34_EventsAlternateBetweenNumbers ==
    [][(Dispatches /\ dmDispatched # "none" /\ ~dmNaNSince)
        => poll'.event # dmDispatched]_vars

\* C34 witness: the poll before the last called notify with
\* air_quality_bad, the last poll with air_quality_good
C34_Witness ==
    /\ prevPoll.failedEvent = "air_quality_bad"
    /\ poll.notified
    /\ poll.event = "air_quality_good"
    /\ dmDispatched = "air_quality_good"

\* C38: a ping goes out only after a poll of the cron in which
\* checkAirQuality returned no error, and after a poll that returned an
\* error the cron's next poll can still run.
C38_PingOnlyAfterSuccess ==
    /\ dmPinged => (dmPolls >= 2 /\ lastOp = "checkAirQuality" /\ ~poll.err)
    /\ (poll.err /\ dmPolls >= 1 /\ dmPolls < MaxRunPolls)
            => ENABLED DaemonCronPoll

\* C38 witness: the poll before the last called notify, which failed, and
\* the last poll was made, returned no error and was followed by a ping
C38_Witness ==
    /\ prevPoll.failedEvent # "none"
    /\ ~poll.err
    /\ dmPinged
----------------------------------------------------------------------------
(* Properties of the age of the baseline *)

\* this step is an interval poll of a worker
WorkerPolls == lastOp' = "checkAirQuality" /\ variant \in {"kv", "d1"}

\* the store holds a baseline: the key last_readings has been written, or
\* the table has a row of kind interval
BaselineStored ==
    \/ variant = "kv" /\ kvLastReadings # <<>>
    \/ variant = "d1" /\ \E i \in 1..Len(db) : db[i].kind = "interval"

\* ... and it is at most an hour old: the key was written at most an hour
\* ago, the last row of kind interval has a ts at most an hour before now
BaselineWithinTheHour ==
    \/ /\ variant = "kv"
       /\ kvLastReadings # <<>>
       /\ now - (kvLastReadings[1].exp - KV_TTL) <= ONE_HOUR
    \/ /\ variant = "d1"
       /\ \E i \in 1..Len(db) :
            /\ db[i].kind = "interval"
            /\ \A j \in (i + 1)..Len(db) : db[j].kind # "interval"
            /\ now - db[i].ts <= ONE_HOUR

\* C35: an interval poll of a worker dispatches a notification only when
\* the stored baseline is at most an hour old; with an older one it finds
\* no previous reading, and when its calls resolve it stores the current
\* reading and notifies nobody.
C35_BaselineAtMostOneHourOld ==
    [][WorkerPolls
        => /\ poll'.notified => BaselineWithinTheHour
           /\ (BaselineStored /\ ~BaselineWithinTheHour /\ poll'.sensorOk
                    /\ ~poll'.readErr /\ ~poll'.writeErr)
                => (~poll'.hadPrev /\ poll'.stored /\ ~poll'.notified)]_vars

\* C35 witness: the poll before the last stored a reading above the
\* threshold (it called notify with air_quality_bad, which failed), the
\* clock advanced, and the last poll read 64, found no previous reading,
\* stored its own and notified nobody
C35_Witness ==
    /\ variant \in {"kv", "d1"}
    /\ lastOp = "checkAirQuality"
    /\ nAdv = 1
    /\ prevPoll.failedEvent = "air_quality_bad"
    /\ poll.sensorOk
    /\ poll.cur = 640
    /\ ~poll.hadPrev
    /\ poll.stored
    /\ ~poll.notified
----------------------------------------------------------------------------
(* Properties of the sensor reader: the depth of the failover *)

\* C36: one read of the daemon fetches at most two times, the primary and
\* then at most once the backup, and after the fetch of the backup it has
\* returned.
C36_AtMostTwoFetches ==
    rdImpl = "go"
        => /\ Len(rdFetched) <= 2
           /\ Len(rdFetched) >= 1 => rdFetched[1] = rdCfg.purpleAirSensorID
           /\ Len(rdFetched) = 2
                => /\ rdFetched[2] = rdCfg.backupSensorID
                   /\ rdFetched[2] # rdFetched[1]
                   /\ rdCur = ""
                   /\ rdResult.st \in {"ok", "error"}

\* C36 witness: the primary was stale, the backup was fetched and had zero
\* results, and the read returned an error after the two fetches
C36_Witness ==
    /\ rdImpl = "go"
    /\ HasStale(rdApi["A"])
    /\ ZeroResults(rdApi["B"])
    /\ rdFetched = <<"A", "B">>
    /\ rdCur = ""
    /\ rdResult = ReadErr
----------------------------------------------------------------------------
(* Properties of the incoming-message webhook *)

\* the request has been answered
Answered == whResponse # "none"

\* the psk of the request is the configured key
PskMatches == whReq.psk = <<TWILIO_WH_PSK>>

\* From is one of the configured recipients
FromRecipient ==
    /\ whReq.from # <<>>
    /\ \E i \in 1..Len(SMS_RECIPIENTS) : whReq.from[1] = SMS_RECIPIENTS[i]

\* Body is the one word report, in any case, with nothing but whitespace
\* around it
IsReportCommand ==
    /\ whReq.body # <<>>
    /\ LET words(piece) == piece \notin Whitespace
           text == whReq.body[1]
       IN  /\ SelectSeq(text, words) \in
                {<<"report">>, <<"Report">>, <<"REPORT">>}
           /\ \A i \in 1..Len(text), j \in 1..Len(text) :
                (i < j /\ words(text[i]) /\ words(text[j]))
                    => \A k \in i..j : words(text[k])

\* C39: the webhook reads the sensor exactly when the psk of the request is
\* the configured key, From is a configured recipient and Body is the
\* command report, and only then answers with a report.
C39_ReportOnlyWhenAuthorized ==
    Answered
        => /\ whRead <=> (/\ whReq.method = "POST"
                          /\ whReq.pathname = "/incoming-message"
                          /\ PskMatches /\ FromRecipient /\ IsReportCommand)
           /\ whResponse = "report" => whRead

\* C39 witness: the right psk and the command, from a number that is not a
\* recipient: answered without a read and without a report
C39_Witness ==
    /\ Answered
    /\ whReq.method = "POST"
    /\ whReq.pathname = "/incoming-message"
    /\ PskMatches
    /\ whReq.from = <<"+15559999">>
    /\ IsReportCommand
    /\ ~whRead
    /\ whResponse = "noop"
====
